---- MODULE Spec2Model ----
(***************************************************************************)
(* Name-operation lifecycle of the blockstack client                       *)
(* (blockstack_client/actions.py): the cli_ operations, the precondition   *)
(* check they share, zonefile loading, the wallet fetch with backoff, the  *)
(* fee estimates and zonefile replication, run against a blockchain, a     *)
(* mempool and the local operation queue.                                  *)
(***************************************************************************)
EXTENDS Integers, Sequences, FiniteSets, TLC

VARIABLES
    names,      \* blockchain: name -> current name record (with its history)
    mempool,    \* transactions broadcast by this wallet and not yet mined
    queue,      \* the local operation queue (queuedb): a set of entries
    balance,    \* satoshis held by the wallet's payment address
    nexttx,     \* number of transactions broadcast so far
    last,       \* the cli_ call just made: its result, its RPC, its checks
    fee,        \* input and reply of the last fee estimate (SpecFee)
    wk,         \* input and result of the last wallet fetch (SpecWallet)
    sync,       \* input and outcome of the last cli_sync_zonefile (SpecSync)
    reveal,     \* cli_namespace_reveal on its own: args and result
    lzf,        \* input and result of the last load_zonefile (SpecZonefile)
    snv,        \* input and result of the last cli_lookup_snv (SpecSnv)
    daemon,     \* the registrar: confirmations seen, last poll (SpecQueue)
    store,      \* the on-disk queue store and its writers (SpecStore)
    flows,      \* the operations in flight, one for each name (SpecParallel)
    info,       \* input and result of the last info, ping or consensus call (SpecInfo)
    others      \* names outside the model that the wallet's owner address owns

vars == <<names, mempool, queue, balance, nexttx, last, fee, wk, sync, reveal, lzf, snv, daemon, store, flows, info, others>>

(***************************************************************************)
(* Bounds of the model                                                     *)
(***************************************************************************)
MaxTx == 2          \* transactions the wallet may broadcast in one behaviour
MaxBalance == 4     \* largest payment-address balance considered
MaxFee == 2         \* largest live fee estimate considered
MaxQueued == 2      \* most pending updates of a name in the queue
MaxHistory == 2     \* most entries in the history of a name
MaxHeight == 3      \* most blocks from an SNV record up to its trust anchor
MaxSeen == 2         \* most confirmations the queue store counts for a row
MaxEntries == 2      \* most preorder, and most register, entries in the queue display

(***************************************************************************)
(* Program constants                                                       *)
(***************************************************************************)
MAXIMUM_NAMES_PER_ADDRESS == 25
PREORDER_CONFIRMATIONS == 6
MAX_TX_CONFIRMATIONS == 130
BackoffAttempts == 3            \* range(3) in get_wallet_with_backoff
BucketCount == 16               \* fields of the bucket_exponents CSV
MaxExponent == 15               \* assert 0 <= bucket_exponents[i] < 16

\* approximate transaction lengths (constants.py), in units of 620 bytes
APPROX_PREORDER_TX_LEN == 1
APPROX_REGISTER_TX_LEN == 1
APPROX_UPDATE_TX_LEN == 2
APPROX_TRANSFER_TX_LEN == 2

None == "None"

Names == {"n1.id"}
InvalidName == "bad name"
OwnerAddr == "A_owner"          \* the wallet's owner address
PaymentAddr == "A_pay"          \* the wallet's payment address
OtherAddrs == {"A_24", "A_25", "A_26"}
Addrs == {OwnerAddr} \cup OtherAddrs
MalformedAddr == "not-an-address"

\* names outside the model that an address already owns
OtherNamesOwned(a) ==
    CASE a = "A_24" -> MAXIMUM_NAMES_PER_ADDRESS - 1
      [] a = "A_25" -> MAXIMUM_NAMES_PER_ADDRESS
      [] a = "A_26" -> MAXIMUM_NAMES_PER_ADDRESS + 1
      [] a = OwnerAddr -> others
      [] OTHER -> 0

Txid(i) == "tx" \o ToString(i)

(***************************************************************************)
(* Results: {'status': True}, {'success': True, 'transaction_hash': ..},   *)
(* {'error': msg}, {} (empty), or an exception leaving the function.       *)
(***************************************************************************)
Status == [kind |-> "status", msg |-> "", txid |-> None, identical |-> FALSE]
Success(t) == [kind |-> "success", msg |-> "", txid |-> t, identical |-> FALSE]
Error(m) == [kind |-> "error", msg |-> m, txid |-> None, identical |-> FALSE]
Raise(m) == [kind |-> "raise", msg |-> m, txid |-> None, identical |-> FALSE]
Empty == [kind |-> "empty", msg |-> "", txid |-> None, identical |-> FALSE]
Exit == [kind |-> "exit", msg |-> "", txid |-> None, identical |-> FALSE]
NotRun == [kind |-> "notrun", msg |-> "", txid |-> None, identical |-> FALSE]

\* 'error' in res
HasError(r) == r.kind = "error"

(***************************************************************************)
(* int(): what Python makes of a text and of a number.                     *)
(***************************************************************************)
\* int() of a text strips white space and takes a sign, and raises
\* ValueError on anything else
Fields == {"0", "7", "15", "16", "-1", " 3", "+4", "1.5", "x", ""}
int(field) ==
    CASE field = "0"   -> [ok |-> TRUE, v |-> 0]
      [] field = "7"   -> [ok |-> TRUE, v |-> 7]
      [] field = "15"  -> [ok |-> TRUE, v |-> 15]
      [] field = "16"  -> [ok |-> TRUE, v |-> 16]
      [] field = "-1"  -> [ok |-> TRUE, v |-> -1]
      [] field = "1"   -> [ok |-> TRUE, v |-> 1]
      [] field = "2"   -> [ok |-> TRUE, v |-> 2]
      [] field = "3"   -> [ok |-> TRUE, v |-> 3]
      [] field = " 3"  -> [ok |-> TRUE, v |-> 3]
      [] field = "+4"  -> [ok |-> TRUE, v |-> 4]
      [] OTHER         -> [ok |-> FALSE, v |-> 0]

\* int() of a number, given in tenths: the fraction is cut off, towards 0
int_number(tenths) ==
    IF tenths >= 0 THEN tenths \div 10 ELSE -((-tenths) \div 10)

\* the $ttl of a parsed payload: none, a number (JSON gives fractions too)
\* or a text
NoTtl == [kind |-> "missing", tenths |-> 0, text |-> ""]
NumberTtl(tenths) == [kind |-> "number", tenths |-> tenths, text |-> ""]
TextTtl(text) == [kind |-> "string", tenths |-> 0, text |-> text]

\* lines 484-488: ttl = int(user_data['$ttl']); assert ttl >= 0
ttl_accepted(ttl) ==
    IF ttl.kind = "number" THEN int_number(ttl.tenths) >= 0
    ELSE int(ttl.text).ok /\ int(ttl.text).v >= 0

(***************************************************************************)
(* Zonefile payloads.  bytes names the raw data; fmt says how far parsing  *)
(* gets; ser names the bytes make_zone_file writes for the parsed data.    *)
(***************************************************************************)
Payload(b, f, o, t, s, z) ==
    [bytes |-> b, fmt |-> f, origin |-> o, ttl |-> t, std |-> s, ser |-> z]

Payloads ==
    { Payload("A1.txt", "text", "n1.id", NumberTtl(70), TRUE, "A1.txt"),
      Payload("A1.json", "json", "n1.id", NumberTtl(70), TRUE, "A1.txt"),
      Payload("B1.txt", "text", "n1.id", NumberTtl(70), TRUE, "B1.txt"),
      Payload("O.txt", "text", "other.id", NumberTtl(70), TRUE, "O.txt"),
      Payload("garbage", "bad", "", NoTtl, FALSE, None),
      Payload("notzf.json", "jsonbad", "", NoTtl, FALSE, None),
      Payload("nottl.txt", "text", "n1.id", NoTtl, TRUE, "nottl.txt"),
      Payload("negttl.txt", "text", "n1.id", NumberTtl(-10), TRUE, "negttl.txt"),
      Payload("zerottl.json", "json", "n1.id", NumberTtl(0), TRUE, "zerottl.txt"),
      Payload("fracttl.json", "json", "n1.id", NumberTtl(-5), TRUE, "fracttl.txt"),
      Payload("strttl.json", "json", "n1.id", TextTtl("7"), TRUE, "strttl.txt"),
      Payload("badttl.json", "json", "n1.id", TextTtl("x"), TRUE, "badttl.txt"),
      Payload("nonstd.txt", "text", "n1.id", NumberTtl(70), FALSE, "nonstd.txt") }

\* str(None): the text "None", which is no zonefile
NoneText == Payload("None", "bad", "", NoTtl, FALSE, None)

PayloadOf(b) == CHOOSE p \in Payloads \cup {NoneText} : p.bytes = b

\* storage.get_zonefile_data_hash: RIPEMD160(SHA256(bytes)), collision-free
get_zonefile_data_hash(b) == "h(" \o b \o ")"

(***************************************************************************)
(* Optional integers: a fee or a balance that a collaborator may fail to   *)
(* give (Python None).                                                     *)
(***************************************************************************)
NoInt == [some |-> FALSE, v |-> 0]
Some(v) == [some |-> TRUE, v |-> v]
Estimates == {NoInt} \cup {Some(f) : f \in 1..MaxFee}
FeeRates == {NoInt, Some(1)}

\* backend.blockchain.get_tx_fee(tx_hex): fee for a transaction of that
\* length at the current rate, None when the rate cannot be fetched
get_tx_fee(approx_len, rate) ==
    IF rate.some THEN Some(approx_len * rate.v) ELSE NoInt

(***************************************************************************)
(* get_total_registration_fees                                             *)
(***************************************************************************)
NamePrice == 1      \* get_name_cost(..)['satoshis'] of the names considered

FeeReply(k, m, pre, reg, upd, tot, w) ==
    [kind |-> k, msg |-> m, preorder_tx_fee |-> pre, register_tx_fee |-> reg,
     update_tx_fee |-> upd, total_estimated_cost |-> tot, warnings |-> w]
FeeError(m) == FeeReply("error", m, NoInt, NoInt, NoInt, NoInt, {})

\* inp: cost ("ok", "error", "raise": get_name_cost), payment_key (the
\* payment key is given), pre, reg, upd (the live estimates), utxo_fail
\* (an estimate raises UTXOException), rate (the fee rate)
get_total_registration_fees(inp) ==
    LET preorder_tx_fee ==
            IF inp.pre.some THEN inp.pre
            ELSE get_tx_fee(APPROX_PREORDER_TX_LEN, inp.rate)
        register_tx_fee ==
            IF inp.reg.some THEN inp.reg
            ELSE get_tx_fee(APPROX_REGISTER_TX_LEN, inp.rate)
        update_tx_fee ==
            IF inp.upd.some THEN inp.upd
            ELSE get_tx_fee(APPROX_UPDATE_TX_LEN, inp.rate)
        insufficient_funds == ~inp.pre.some \/ ~inp.reg.some \/ ~inp.upd.some
        warnings ==
            (IF insufficient_funds /\ inp.payment_key
             THEN {"Insufficient funds; fees are rough estimates."} ELSE {})
            \cup (IF ~inp.payment_key
                  THEN {"Wallet not accessed; fees are rough estimates."} ELSE {})
    IN  IF inp.cost = "raise" THEN FeeError("Could not connect to server")
        ELSE IF inp.cost = "error" THEN FeeError("Could not determine price of name")
        ELSE IF inp.utxo_fail
        THEN FeeError("Failed to query UTXO provider.  Please try again.")
        ELSE IF ~preorder_tx_fee.some \/ ~register_tx_fee.some \/ ~update_tx_fee.some
        THEN \* int(None)
             FeeReply("raise", "TypeError: int() argument", NoInt, NoInt, NoInt,
                      NoInt, {})
        ELSE FeeReply("fees", "", preorder_tx_fee, register_tx_fee, update_tx_fee,
                      Some(NamePrice + preorder_tx_fee.v + register_tx_fee.v
                           + update_tx_fee.v),
                      warnings)

\* get_name_cost: a price, an error reply, or an exception
NameCosts == {"ok", "error", "raise"}

FeeInputs ==
    [cost : NameCosts, payment_key : BOOLEAN, pre : Estimates,
     reg : Estimates, upd : Estimates, utxo_fail : BOOLEAN, rate : FeeRates]

\* what cli_register can get: the wallet's payment key is given
RegistrationFees ==
    {get_total_registration_fees(i) : i \in {j \in FeeInputs : j.payment_key}}

(***************************************************************************)
(* Blockchain name records                                                 *)
(***************************************************************************)
NoRecord ==
    [registered |-> FALSE, preordered |-> FALSE, revoked |-> FALSE,
     address |-> None, value_hash |-> None]

RegisteredTo(a) ==
    [registered |-> TRUE, preordered |-> TRUE, revoked |-> FALSE,
     address |-> a, value_hash |-> None]

\* get_name_blockchain_record(name)
get_name_blockchain_record(fqu) ==
    IF fqu \in DOMAIN names /\ names[fqu].registered THEN names[fqu] ELSE NoRecord

\* proxy.is_name_registered: a record exists and the name is not revoked
is_name_registered(fqu) ==
    LET rec == get_name_blockchain_record(fqu)
    IN  rec.registered /\ ~rec.revoked

\* proxy.is_name_owner: the record's address is the given address
is_name_owner(fqu, address) ==
    LET rec == get_name_blockchain_record(fqu)
    IN  rec.registered /\ rec.address = address

\* get_names_owned_by_address, counted
names_owned(a) ==
    OtherNamesOwned(a)
    + Cardinality({n \in DOMAIN names : names[n].registered /\ names[n].address = a})

\* backend.blockchain.can_receive_name: an address that owns fewer names
\* than the cap can receive one, an address that owns more cannot; for an
\* address that owns exactly the cap the answer is refuses_at_cap
can_receive_name(a, refuses_at_cap) ==
    IF names_owned(a) = MAXIMUM_NAMES_PER_ADDRESS
    THEN ~refuses_at_cap
    ELSE names_owned(a) < MAXIMUM_NAMES_PER_ADDRESS

\* backend.blockchain.is_address_usable: no unconfirmed transactions
is_address_usable == mempool = {}

\* scripts.is_name_valid
is_name_valid(fqu) == fqu \in Names

\* pybitcoin.is_b58check_address answers False for a malformed address
\* and raises nothing
is_b58check_address_raises(a) == FALSE

(***************************************************************************)
(* check_valid_name: None on success, an error string otherwise            *)
(***************************************************************************)
check_valid_name(fqu) ==
    IF is_name_valid(fqu) THEN None ELSE "The name specified is invalid."

(***************************************************************************)
(* operation_sanity_check                                                  *)
(***************************************************************************)
\* lines 268-286: the live estimate, or the fixed-length fallback
sanity_tx_fee(transfer_address, est, rate) ==
    IF est.some THEN est
    ELSE IF transfer_address # None
         THEN get_tx_fee(APPROX_TRANSFER_TX_LEN, rate)
         ELSE get_tx_fee(APPROX_UPDATE_TX_LEN, rate)

\* the check without the destination's name count
operation_sanity_check_no_cap(fqu, transfer_address, env) ==
    LET tx_fee == sanity_tx_fee(transfer_address, env.est, env.rate)
    IN  IF ~is_name_registered(fqu)
        THEN Error("is not registered yet.")
        ELSE IF ~is_name_owner(fqu, OwnerAddr)
        THEN Error("is not in your possession.")
        ELSE IF ~tx_fee.some
        THEN Error("Failed to get fee estimate")
        ELSE IF ~env.bal
        THEN Error("Failed to get balance")
        ELSE IF balance < tx_fee.v
        THEN Error("does not have a sufficient balance")
        ELSE IF ~is_address_usable
        THEN Error("has insufficiently confirmed transactions.")
        ELSE Status

\* the check without the look at unconfirmed transactions
operation_sanity_check_no_usable(fqu, transfer_address, env) ==
    LET tx_fee == sanity_tx_fee(transfer_address, env.est, env.rate)
    IN  IF ~is_name_registered(fqu)
        THEN Error("is not registered yet.")
        ELSE IF ~is_name_owner(fqu, OwnerAddr)
        THEN Error("is not in your possession.")
        ELSE IF ~tx_fee.some
        THEN Error("Failed to get fee estimate")
        ELSE IF ~env.bal
        THEN Error("Failed to get balance")
        ELSE IF balance < tx_fee.v
        THEN Error("does not have a sufficient balance")
        ELSE IF transfer_address = None
        THEN Status
        ELSE IF ~can_receive_name(transfer_address, env.refuses_at_cap)
        THEN Error("owns too many names already.")
        ELSE Status

\* the check that takes any record of the owner's, revoked or not
operation_sanity_check_no_registered(fqu, transfer_address, env) ==
    LET tx_fee == sanity_tx_fee(transfer_address, env.est, env.rate)
    IN  IF ~is_name_owner(fqu, OwnerAddr)
        THEN Error("is not in your possession.")
        ELSE IF ~tx_fee.some
        THEN Error("Failed to get fee estimate")
        ELSE IF ~env.bal
        THEN Error("Failed to get balance")
        ELSE IF balance < tx_fee.v
        THEN Error("does not have a sufficient balance")
        ELSE IF ~is_address_usable
        THEN Error("has insufficiently confirmed transactions.")
        ELSE IF transfer_address = None
        THEN Status
        ELSE IF ~can_receive_name(transfer_address, env.refuses_at_cap)
        THEN Error("owns too many names already.")
        ELSE Status

\* the check that never looks the name up
operation_sanity_check_any_name(fqu, transfer_address, env) ==
    LET tx_fee == sanity_tx_fee(transfer_address, env.est, env.rate)
    IN  IF ~tx_fee.some
        THEN Error("Failed to get fee estimate")
        ELSE IF ~env.bal
        THEN Error("Failed to get balance")
        ELSE IF balance < tx_fee.v
        THEN Error("does not have a sufficient balance")
        ELSE IF ~is_address_usable
        THEN Error("has insufficiently confirmed transactions.")
        ELSE IF transfer_address = None
        THEN Status
        ELSE IF ~can_receive_name(transfer_address, env.refuses_at_cap)
        THEN Error("owns too many names already.")
        ELSE Status

\* env: est (live estimate), rate (fee rate), bal (get_balance answers),
\* refuses_at_cap (can_receive_name at exactly the cap)
operation_sanity_check(fqu, transfer_address, env) ==
    LET tx_fee == sanity_tx_fee(transfer_address, env.est, env.rate)
    IN  IF ~is_name_registered(fqu)
        THEN Error("is not registered yet.")
        ELSE IF ~is_name_owner(fqu, OwnerAddr)
        THEN Error("is not in your possession.")
        ELSE IF ~tx_fee.some
        THEN Error("Failed to get fee estimate")
        ELSE IF ~env.bal
        THEN Error("Failed to get balance")
        ELSE IF balance < tx_fee.v
        THEN Error("does not have a sufficient balance")
        ELSE IF ~is_address_usable
        THEN Error("has insufficiently confirmed transactions.")
        ELSE IF transfer_address = None
        THEN Status
        ELSE IF is_b58check_address_raises(transfer_address)
        THEN Error("is not a valid Bitcoin address.")
        ELSE IF ~can_receive_name(transfer_address, env.refuses_at_cap)
        THEN Error("owns too many names already.")
        ELSE Status

\* the rate matters only when the live estimate fails, the balance only
\* when there is a fee, refuses_at_cap only for a destination at the cap
SanityEnvs(transfer_address) ==
    {e \in [est : Estimates, rate : FeeRates, bal : BOOLEAN,
            refuses_at_cap : BOOLEAN] :
        /\ e.est.some => e.rate = NoInt
        /\ (~e.est.some /\ ~e.rate.some) => e.bal
        /\ names_owned(transfer_address) # MAXIMUM_NAMES_PER_ADDRESS
                => e.refuses_at_cap}

(***************************************************************************)
(* load_zonefile                                                           *)
(***************************************************************************)
LzError(m) == [kind |-> "error", msg |-> m, identical |-> FALSE, zonefile |-> None]

\* proxy.is_zonefile_current: the hash of the serialized zonefile is the
\* value_hash of the name's current record
is_zonefile_current(fqu, p) ==
    LET rec == get_name_blockchain_record(fqu)
    IN  rec.registered /\ rec.value_hash = get_zonefile_data_hash(p.ser)

load_zonefile(fqu, zonefile_data, check_current) ==
    LET p == PayloadOf(zonefile_data)      \* str(zonefile_data), parsed
    IN  IF p.fmt = "bad"
        THEN LzError("Zonefile data is invalid.")
        ELSE IF p.fmt = "jsonbad"
        THEN LzError("Invalid zonefile")
        ELSE IF fqu # p.origin
        THEN LzError("Invalid $origin; must use your name")
        ELSE IF p.ttl = NoTtl
        THEN LzError("Missing $ttl; please supply a positive integer")
        ELSE IF ~p.std
        THEN LzError("Zonefile is missing or has invalid URI and/or TXT records")
        ELSE IF ~ttl_accepted(p.ttl)
        THEN LzError("Invalid $ttl; must be a positive integer")
        ELSE IF check_current /\ is_zonefile_current(fqu, p)
        THEN [kind |-> "error",
              msg |-> "Zonefile data is same as current zonefile; update not needed.",
              identical |-> TRUE, zonefile |-> p.ser]
        ELSE [kind |-> "status", msg |-> "", identical |-> FALSE,
              zonefile |-> p.ser]

(***************************************************************************)
(* get_wallet_with_backoff, get_wallet_keys                                *)
(***************************************************************************)
\* what one call of get_wallet does: the keys, an {'error': ..} reply,
\* IOError with ECONNREFUSED, or another IOError/OSError
WalletAttempts == {"keys", "error", "refused", "ioerror"}

WalletRet(r, n, sl) == [ret |-> r, attempts |-> n, sleeps |-> sl]

RECURSIVE backoff_loop(_, _, _)
backoff_loop(outs, i, sleeps) ==
    IF i = BackoffAttempts
    THEN \* the loop ran out: i keeps its last value, BackoffAttempts - 1
         WalletRet(IF BackoffAttempts - 1 = 3 THEN "error" ELSE "none",
                   i, sleeps)
    ELSE CASE outs[i + 1] = "keys" -> WalletRet("keys", i + 1, sleeps)
           [] outs[i + 1] = "error" -> WalletRet("error", i + 1, sleeps)
           [] outs[i + 1] = "refused" ->
                backoff_loop(outs, i + 1, Append(sleeps, i + 1))
           [] OTHER -> WalletRet("raise", i + 1, sleeps)

get_wallet_with_backoff(outs) == backoff_loop(outs, 0, <<>>)

\* w: exists (wallet file), init_ok, unlocked, unlock_ok, outs
get_wallet_keys(w) ==
    IF ~w.exists /\ ~w.init_ok THEN WalletRet("error", 0, <<>>)
    ELSE IF ~w.unlocked /\ ~w.unlock_ok THEN WalletRet("error", 0, <<>>)
    ELSE get_wallet_with_backoff(w.outs)

WalletInputs ==
    [exists : BOOLEAN, init_ok : BOOLEAN, unlocked : BOOLEAN,
     unlock_ok : BOOLEAN, outs : [1..BackoffAttempts -> WalletAttempts]]

\* what a cli_ call can get from get_wallet_keys
WalletResults == {get_wallet_keys(w).ret : w \in WalletInputs}

\* wallet_keys = get_wallet_keys(..); if 'error' in wallet_keys: return ..
wallet_failure(wres) ==
    CASE wres = "error" -> Error("wallet")
      [] wres = "none" -> Raise("TypeError: argument of type 'NoneType' is not iterable")
      [] OTHER -> Raise("IOError")

(***************************************************************************)
(* The record of a cli_ call                                               *)
(***************************************************************************)
Call(op, fqu) ==
    [op |-> op, name |-> fqu, data |-> None, dest |-> None,
     result |-> NotRun, sanity |-> NotRun, tx_fee |-> NoInt,
     lz |-> "notrun", rpc |-> None, mode |-> None]

Idle == Call("none", None)
fqu_of(call) == call.name

NoBroadcast == UNCHANGED <<mempool, queue, balance, nexttx>>

\* the call returns (or raises) without reaching the backend
Return(call, result) ==
    /\ last' = [call EXCEPT !.result = result]
    /\ NoBroadcast
    /\ UNCHANGED <<names, fee, wk, sync, reveal, lzf, snv, daemon, store, flows, info, others>>

(***************************************************************************)
(* The API daemon's backend_* calls: on success the transaction is         *)
(* broadcast and its queue entry written; otherwise neither happens.       *)
(***************************************************************************)
Tx(t, type, fqu, arg) == [txid |-> t, type |-> type, name |-> fqu, arg |-> arg]
QueueEntry(type, fqu, t, zf) ==
    [type |-> type, name |-> fqu, tx_hash |-> t, zonefile |-> zf]

Broadcast(type, fqu, arg, zf) ==
    LET t == Txid(nexttx + 1)
    IN  /\ mempool' = mempool \cup {Tx(t, type, fqu, arg)}
        /\ queue' = queue \cup {QueueEntry(type, fqu, t, zf)}
        /\ balance' = balance - 1
        /\ nexttx' = nexttx + 1

BackendReplies == {"success", "error", "message", "other", "raise"}

\* a backend call that writes the queue entry whatever the reply
backend_call_queueing(call, fn, type, arg, zf, no_result) ==
    LET made == [call EXCEPT !.rpc = fn]
    IN  /\ UNCHANGED <<names, fee, wk, sync, reveal, lzf, snv, daemon, store, flows, info, others>>
        /\ \E reply \in BackendReplies :
             \/ /\ reply = "success"
                /\ nexttx < MaxTx
                /\ balance >= 1
                /\ Broadcast(type, fqu_of(call), arg, zf)
                /\ last' = [made EXCEPT !.result = Success(Txid(nexttx + 1))]
             \/ /\ reply # "success"
                /\ queue' = queue \cup {QueueEntry(type, fqu_of(call), Txid(nexttx + 1), zf)}
                /\ UNCHANGED <<mempool, balance, nexttx>>
                /\ last' = [made EXCEPT !.result =
                        CASE reply = "error" -> Error("backend error")
                          [] reply = "message" -> Error("backend message")
                          [] reply = "raise" ->
                                Error("Error talking to server, try again.")
                          [] OTHER -> no_result]

\* resp = rpc.backend_<fn>(..) and the reply handling every cli_ function
\* repeats; no_result is what 'return result' gives for a reply with none
\* of success, error, message
backend_call(call, fn, type, arg, zf, no_result) ==
    LET made == [call EXCEPT !.rpc = fn]
    IN  /\ UNCHANGED <<names, fee, wk, sync, reveal, lzf, snv, daemon, store, flows, info, others>>
        /\ \E reply \in BackendReplies :
             \/ /\ reply = "success"
                /\ nexttx < MaxTx
                /\ balance >= 1
                /\ Broadcast(type, fqu_of(call), arg, zf)
                /\ last' = [made EXCEPT !.result = Success(Txid(nexttx + 1))]
             \/ /\ reply # "success"
                /\ NoBroadcast
                /\ last' = [made EXCEPT !.result =
                        CASE reply = "error" -> Error("backend error")
                          [] reply = "message" -> Error("backend message")
                          [] reply = "raise" ->
                                Error("Error talking to server, try again.")
                          [] OTHER -> no_result]

(***************************************************************************)
(* Inputs of the cli_ calls                                                *)
(***************************************************************************)
NameArgs == Names \cup {InvalidName}
PayloadBytes == {p.bytes : p \in Payloads}
\* the zonefile data given to the cli_ calls: a zonefile as text and as
\* JSON, and data that is no zonefile
DataArgs == {"A1.txt", "A1.json", "garbage"}
AddressArgs == Addrs \cup {MalformedAddr}
\* wallet_ensure_exists and start_rpc_endpoint: both fine, or one fails
Startups == {"ok", "error"}

\* get_name_zonefile(fqu, raw_zonefile=True): the stored zonefile whose hash
\* is the name's value_hash, or nothing
stored_zonefiles(fqu) ==
    {b \in PayloadBytes :
        get_zonefile_data_hash(b) = get_name_blockchain_record(fqu).value_hash}

\* str(zonefile_data)
str(data) == IF data = None THEN "None" ELSE data

(***************************************************************************)
(* cli_update                                                              *)
(***************************************************************************)
\* the update that goes to the backend whatever the sanity check said
update_send_unchecked(call, user_data_txt, user_data_hash) ==
    \E env \in SanityEnvs(None) :
        LET res == operation_sanity_check(call.name, None, env)
            c == [call EXCEPT !.sanity = res,
                              !.tx_fee = sanity_tx_fee(None, env.est, env.rate)]
        IN  IF user_data_txt = None
            THEN Return(c, Error("Error talking to server, try again."))
            ELSE backend_call(c, "backend_update", "update", user_data_hash,
                              user_data_txt, Raise("UnboundLocalError: result"))

\* lines 1264-1299: sanity check, backend_update, reply handling
update_send(call, user_data_txt, user_data_hash) ==
    \E env \in SanityEnvs(None) :
        LET res == operation_sanity_check(call.name, None, env)
            c == [call EXCEPT !.sanity = res,
                              !.tx_fee = sanity_tx_fee(None, env.est, env.rate)]
        IN  IF HasError(res)
            THEN Return(c, res)
            ELSE IF user_data_txt = None
            THEN \* base64.b64encode(None) raises inside the try
                 Return(c, Error("Error talking to server, try again."))
            ELSE backend_call(c, "backend_update", "update", user_data_hash,
                              user_data_txt, Raise("UnboundLocalError: result"))

\* lines 1221-1249: load the zonefile and decide what to send
update_load(call, modes, zonefile_data) ==
    LET user_data_res == load_zonefile(call.name, str(zonefile_data), TRUE)
        c == [call EXCEPT !.data = zonefile_data,
                 !.lz = IF user_data_res.kind # "error" THEN "valid"
                        ELSE IF user_data_res.identical THEN "identical"
                        ELSE "invalid"]
    IN  IF user_data_res.kind # "error"
        THEN update_send(c, user_data_res.zonefile,
                         get_zonefile_data_hash(user_data_res.zonefile))
        ELSE IF user_data_res.identical
        THEN Return(c, Error("Zonefile matches the current name hash; not updating."))
        ELSE \E interactive \in modes :
            IF ~interactive
            THEN \* 'zonefile_data is None or allow_invalid_zonefile': the second
                 \* name is bound nowhere in actions.py; a star import may bind it
                 \E bound \in (IF zonefile_data = None THEN {TRUE} ELSE BOOLEAN) :
                    IF bound
                    THEN Return(c, Error("Zone file not updated (invalid)"))
                    ELSE Return(c, Raise("NameError: allow_invalid_zonefile"))
            ELSE IF zonefile_data # None
            THEN \E proceed \in BOOLEAN :
                    IF ~proceed
                    THEN Return(c, Error("Zone file not updated (reason)"))
                    ELSE update_send(c, zonefile_data,
                                     get_zonefile_data_hash(zonefile_data))
            ELSE update_send(c, None, None)

\* lines 1169-1219, for the modes (interactive or not) still possible
update_start(call, modes) ==
    \E startup \in Startups :
        IF startup = "error"
        THEN Return(call, Error("wallet or RPC endpoint"))
        ELSE IF check_valid_name(call.name) # None
        THEN Return(call, Error(check_valid_name(call.name)))
        ELSE \E readable \in (IF call.data = None THEN {TRUE} ELSE BOOLEAN) :
            IF ~readable
            THEN Return(call, Error("Failed to read"))
            ELSE \E wres \in WalletResults :
                IF wres # "keys"
                THEN Return(call, wallet_failure(wres))
                ELSE IF call.data # None
                THEN update_load(call, modes, call.data)
                ELSE \E fetched \in {None} \cup stored_zonefiles(call.name) :
                        update_load(call, modes, fetched)

cli_update ==
    /\ last = Idle
    /\ \E fqu \in NameArgs, data \in {None} \cup DataArgs, interactive \in BOOLEAN :
        LET call == [Call("update", fqu) EXCEPT
                        !.data = data,
                        !.mode = IF interactive THEN "interactive" ELSE "batch"]
        IN  IF ~interactive /\ data = None
            THEN Return(call, Error("Zone file data required in non-interactive mode"))
            ELSE update_start(call, {interactive})

(***************************************************************************)
(* cli_transfer                                                            *)
(***************************************************************************)
cli_transfer ==
    /\ last = Idle
    /\ \E fqu \in NameArgs, transfer_address \in AddressArgs, startup \in Startups :
        LET call == [Call("transfer", fqu) EXCEPT !.dest = transfer_address]
        IN  IF startup = "error"
            THEN Return(call, Error("wallet or RPC endpoint"))
            ELSE \E wres1 \in WalletResults :
                IF wres1 # "keys"
                THEN Return(call, wallet_failure(wres1))
                ELSE IF check_valid_name(fqu) # None
                THEN Return(call, Error(check_valid_name(fqu)))
                ELSE \E wres2 \in WalletResults :
                    IF wres2 # "keys"
                    THEN Return(call, wallet_failure(wres2))
                    ELSE \E env \in SanityEnvs(transfer_address) :
                        LET res == operation_sanity_check(fqu, transfer_address, env)
                            c == [call EXCEPT !.sanity = res,
                                     !.tx_fee = sanity_tx_fee(transfer_address,
                                                              env.est, env.rate)]
                        IN  IF HasError(res)
                            THEN Return(c, res)
                            ELSE backend_call(c, "backend_transfer", "transfer",
                                              transfer_address, None,
                                              Raise("UnboundLocalError: result"))

(***************************************************************************)
(* cli_register                                                            *)
(***************************************************************************)
\* lines 1107-1152: balance, owner address, payment address, backend_preorder
\* the preorder that is sent whatever the owner address already owns
register_send_any_owner(call, fees) ==
    \E bal \in BOOLEAN :
        LET c == [call EXCEPT !.tx_fee = fees.total_estimated_cost]
        IN  IF ~bal
            THEN Return(c, Error("Failed to get balance"))
            ELSE IF balance < fees.total_estimated_cost.v
            THEN Return(c, Error("does not have enough balance"))
            ELSE IF ~is_address_usable
            THEN Return(c, Error("has insufficiently confirmed transactions."))
            ELSE backend_call(c, "backend_preorder", "preorder", None, None, Empty)

\* tx_fee of the call: the total estimated cost the balance is held against
register_send(call, fees) ==
    \E bal \in BOOLEAN :
        LET c == [call EXCEPT !.tx_fee = fees.total_estimated_cost]
        IN  IF ~bal
            THEN Return(c, Error("Failed to get balance"))
            ELSE IF balance < fees.total_estimated_cost.v
            THEN Return(c, Error("does not have enough balance"))
            ELSE IF ~can_receive_name(OwnerAddr, TRUE)
            THEN Return(c, Error("owns too many names already."))
            ELSE IF ~is_address_usable
            THEN Return(c, Error("has insufficiently confirmed transactions."))
            ELSE backend_call(c, "backend_preorder", "preorder", None, None, Empty)

cli_register ==
    /\ last = Idle
    /\ \E fqu \in NameArgs, startup \in Startups :
        LET call == Call("register", fqu)
        IN  IF startup = "error"
            THEN Return(call, Error("wallet or RPC endpoint"))
            ELSE IF check_valid_name(fqu) # None
            THEN Return(call, Error(check_valid_name(fqu)))
            ELSE IF is_name_registered(fqu)
            THEN Return(call, Error("is already registered."))
            ELSE \E wres \in WalletResults :
                IF wres # "keys"
                THEN Return(call, wallet_failure(wres))
                ELSE \E fees \in RegistrationFees :
                    IF fees.kind = "error"
                    THEN Return(call, Error(fees.msg))
                    ELSE IF fees.kind = "raise"
                    THEN Return(call, Raise(fees.msg))
                    ELSE \E interactive \in BOOLEAN, proceed \in BOOLEAN :
                            IF interactive /\ ~proceed
                            THEN Return(call, Exit)
                            ELSE register_send(call, fees)

(***************************************************************************)
(* cli_renew                                                               *)
(***************************************************************************)
\* lines 1410-1434: the price of the name plus the renewal transaction's
\* fee; cost is what get_name_cost does, est the live estimate
renewal_fees(cost, est) ==
    IF cost = "raise" THEN FeeError("Could not connect to server")
    ELSE IF cost = "error" THEN FeeError("Could not determine price of name")
    ELSE IF ~est.some THEN FeeError("Failed to estimate fee")
    ELSE FeeReply("fees", "", NoInt, NoInt, NoInt, Some(NamePrice + est.v), {})

\* lines 1455-1497
\* the renewal that is sent whatever the payment address holds
renew_send_any_balance(call, cost) ==
    \E bal \in BOOLEAN :
        LET c == [call EXCEPT !.tx_fee = Some(cost)]
        IN  IF ~bal
            THEN Return(c, Error("Failed to get balance"))
            ELSE IF ~is_address_usable
            THEN Return(c, Error("has insufficiently confirmed transactions."))
            ELSE backend_call(c, "backend_renew", "renew", None, None, Empty)

\* tx_fee of the call: the cost (name price and renewal fee) the balance is
\* held against
renew_send(call, cost) ==
    \E bal \in BOOLEAN :
        LET c == [call EXCEPT !.tx_fee = Some(cost)]
        IN  IF ~bal
            THEN Return(c, Error("Failed to get balance"))
            ELSE IF balance < cost
            THEN Return(c, Error("does not have enough balance"))
            ELSE IF ~is_address_usable
            THEN Return(c, Error("has insufficiently confirmed transactions."))
            ELSE backend_call(c, "backend_renew", "renew", None, None, Empty)

cli_renew ==
    /\ last = Idle
    /\ \E fqu \in NameArgs, startup \in Startups :
        LET call == Call("renew", fqu)
        IN  IF startup = "error"
            THEN Return(call, Error("wallet or RPC endpoint"))
            ELSE IF check_valid_name(fqu) # None
            THEN Return(call, Error(check_valid_name(fqu)))
            ELSE IF ~is_name_registered(fqu)
            THEN Return(call, Error("does not exist."))
            ELSE \E wres \in WalletResults :
                IF wres # "keys"
                THEN Return(call, wallet_failure(wres))
                ELSE IF ~is_name_owner(fqu, OwnerAddr)
                THEN Return(call, Error("is not in your possession."))
                ELSE \E cost \in NameCosts, renewal_tx_fee \in Estimates :
                    LET fees == renewal_fees(cost, renewal_tx_fee)
                    IN  IF fees.kind = "error"
                        THEN Return(call, Error(fees.msg))
                        ELSE \E interactive \in BOOLEAN, proceed \in BOOLEAN :
                            IF interactive /\ ~proceed
                            THEN Return(call, Exit)
                            ELSE renew_send(call, fees.total_estimated_cost.v)

(***************************************************************************)
(* cli_revoke                                                              *)
(***************************************************************************)
cli_revoke ==
    /\ last = Idle
    /\ \E fqu \in NameArgs, startup \in Startups :
        LET call == Call("revoke", fqu)
        IN  IF startup = "error"
            THEN Return(call, Error("wallet or RPC endpoint"))
            ELSE IF check_valid_name(fqu) # None
            THEN Return(call, Error(check_valid_name(fqu)))
            ELSE IF ~is_name_registered(fqu)
            THEN Return(call, Error("does not exist."))
            ELSE \E wres \in WalletResults :
                IF wres # "keys"
                THEN Return(call, wallet_failure(wres))
                ELSE \E env \in SanityEnvs(None) :
                    LET res == operation_sanity_check(fqu, None, env)
                        c == [call EXCEPT !.sanity = res,
                                 !.tx_fee = sanity_tx_fee(None, env.est, env.rate)]
                    IN  IF HasError(res)
                        THEN Return(c, res)
                        ELSE \E interactive \in BOOLEAN, proceed \in BOOLEAN :
                            IF interactive /\ ~proceed
                            THEN Return(c, Exit)
                            ELSE backend_call(c, "backend_revoke", "revoke",
                                              None, None, Empty)

(***************************************************************************)
(* cli_migrate                                                             *)
(***************************************************************************)
\* what get_name_zonefile gives cli_migrate: nothing, or a zonefile that
\* does not parse, is in the legacy format, or is a standard one
MigrateZonefiles == {None, "nonstandard", "legacy", "standard"}

cli_migrate ==
    /\ last = Idle
    /\ \E fqu \in NameArgs, startup \in Startups :
        LET call == Call("migrate", fqu)
        IN  IF startup = "error"
            THEN Return(call, Error("wallet or RPC endpoint"))
            ELSE IF check_valid_name(fqu) # None
            THEN Return(call, Error(check_valid_name(fqu)))
            ELSE \E wres \in WalletResults :
                IF wres # "keys"
                THEN Return(call, wallet_failure(wres))
                ELSE \E env \in SanityEnvs(None) :
                    LET res == operation_sanity_check(fqu, None, env)
                        c == [call EXCEPT !.sanity = res,
                                 !.tx_fee = sanity_tx_fee(None, env.est, env.rate)]
                    IN  IF HasError(res)
                        THEN Return(c, res)
                        ELSE \E zf \in MigrateZonefiles, interactive \in BOOLEAN,
                                force \in BOOLEAN, proceed \in BOOLEAN :
                            \* lines 1626-1640: only now is the zonefile parsed
                            LET cz == [c EXCEPT !.lz = IF zf = None THEN "notrun" ELSE zf]
                                send == backend_call(cz, "backend_migrate", "update",
                                            get_zonefile_data_hash("B1.txt"), "B1.txt",
                                            Raise("UnboundLocalError: result"))
                            IN  IF zf = None
                                THEN send
                                ELSE IF zf = "nonstandard"
                                THEN IF interactive /\ ~force
                                     THEN IF ~proceed
                                          THEN Return(cz, Error("Non-standard zonefile"))
                                          ELSE send
                                     ELSE IF ~force
                                     THEN Return(cz, Error("Non-standard zonefile"))
                                     ELSE send
                                ELSE IF zf # "legacy" /\ ~force
                                THEN \* current or not, nothing to migrate
                                     Return(cz, Error("Not a legacy profile; cannot migrate."))
                                ELSE send

(***************************************************************************)
(* cli_set_zonefile_hash                                                   *)
(***************************************************************************)
\* 40 hexadecimal digits
is_zonefile_hash(h) == h \in {get_zonefile_data_hash(b) : b \in PayloadBytes}
HashArgs == {get_zonefile_data_hash("A1.txt"), "not a hash"}

cli_set_zonefile_hash ==
    /\ last = Idle
    /\ \E fqu \in NameArgs, zonefile_hash \in HashArgs, startup \in Startups :
        LET call == [Call("set_zonefile_hash", fqu) EXCEPT !.data = zonefile_hash]
        IN  IF startup = "error"
            THEN Return(call, Error("wallet or RPC endpoint"))
            ELSE IF check_valid_name(fqu) # None
            THEN Return(call, Error(check_valid_name(fqu)))
            ELSE IF ~is_zonefile_hash(zonefile_hash)
            THEN Return(call, Error("Not a valid zonefile hash"))
            ELSE \E wres \in WalletResults :
                IF wres # "keys"
                THEN Return(call, wallet_failure(wres))
                ELSE \E env \in SanityEnvs(None) :
                    LET res == operation_sanity_check(fqu, None, env)
                        c == [call EXCEPT !.sanity = res,
                                 !.tx_fee = sanity_tx_fee(None, env.est, env.rate)]
                    IN  IF HasError(res)
                        THEN Return(c, res)
                        ELSE backend_call(c, "backend_update", "update",
                                          zonefile_hash, None,
                                          Raise("UnboundLocalError: result"))

(***************************************************************************)
(* cli_unqueue                                                             *)
(***************************************************************************)
QueueTypes == {"preorder", "register", "update", "transfer", "renew", "revoke"}

\* backend.queue.queuedb_remove: delete the rows of that queue, name, txid
queuedb_remove(queue_id, fqu, txid) ==
    {e \in queue : ~(e.type = queue_id /\ e.name = fqu /\ e.tx_hash = txid)}

\* the arguments tried: those of an entry, of an entry under another
\* queue or name, and of a transaction that was never queued
UnqueueArgs ==
    {<<e.type, e.name, e.tx_hash>> : e \in queue}
    \cup {<<IF e.type = "update" THEN "transfer" ELSE "update", e.name, e.tx_hash>> :
            e \in queue}
    \cup {<<e.type, InvalidName, e.tx_hash>> : e \in queue}
    \cup {<<"update", "n1.id", Txid(0)>>}

\* unqueue that drops every entry of the name
cli_unqueue_name ==
    /\ last = Idle
    /\ \E args \in UnqueueArgs, raises \in BOOLEAN :
        LET call == [Call("unqueue", args[2]) EXCEPT !.data = args[3],
                                                     !.dest = args[1]]
        IN  /\ queue' = IF raises THEN queue
                        ELSE {e \in queue : e.name # args[2]}
            /\ last' = [call EXCEPT !.result =
                            IF raises THEN Error("Failed to remove from queue")
                            ELSE Status]
            /\ UNCHANGED <<names, mempool, balance, nexttx, fee, wk, sync, reveal, lzf, snv, daemon, store, flows, info, others>>

cli_unqueue ==
    /\ last = Idle
    /\ \E args \in UnqueueArgs, raises \in BOOLEAN :
        LET queue_id == args[1]
            fqu == args[2]
            txid == args[3]
            call == [Call("unqueue", fqu) EXCEPT !.data = txid, !.dest = queue_id]
        IN  /\ queue' = IF raises THEN queue
                        ELSE queuedb_remove(queue_id, fqu, txid)
            /\ last' = [call EXCEPT !.result =
                            IF raises THEN Error("Failed to remove from queue")
                            ELSE Status]
            /\ UNCHANGED <<names, mempool, balance, nexttx, fee, wk, sync, reveal, lzf, snv, daemon, store, flows, info, others>>

(***************************************************************************)
(* The blockchain, the mempool and the daemon's queue                      *)
(***************************************************************************)
\* the wallet's owner may act on a name: registered, not revoked, its own
chain_accepts(rec) == rec.registered /\ ~rec.revoked /\ rec.address = OwnerAddr

\* the name record after transaction tx is mined
chain_apply(rec, tx) ==
    CASE tx.type = "preorder" ->
            IF rec.registered THEN rec ELSE [rec EXCEPT !.preordered = TRUE]
      [] tx.type = "register" ->
            IF rec.preordered /\ ~rec.registered
            THEN RegisteredTo(OwnerAddr) ELSE rec
      [] ~chain_accepts(rec) -> rec
      [] tx.type = "update" -> [rec EXCEPT !.value_hash = tx.arg]
      [] tx.type = "transfer" -> [rec EXCEPT !.address = tx.arg]
      [] tx.type = "revoke" -> [rec EXCEPT !.revoked = TRUE]
      [] OTHER -> rec

\* a broadcast transaction is mined
Mine ==
    \E tx \in mempool :
        /\ names' = [names EXCEPT ![tx.name] = chain_apply(names[tx.name], tx)]
        /\ mempool' = mempool \ {tx}
        /\ last' = Idle
        /\ UNCHANGED <<queue, balance, nexttx, fee, wk, sync, reveal, lzf, snv, daemon, store, flows, info, others>>

\* the command-line client prints the result of the call and exits; the
\* next command is typed after that
cli_exit ==
    /\ last # Idle
    /\ last' = Idle
    /\ UNCHANGED <<names, mempool, queue, balance, nexttx, fee, wk, sync, reveal, lzf, snv, daemon, store, flows, info, others>>

InitialRecords == {NoRecord, RegisteredTo(OwnerAddr), RegisteredTo("A_24")}

\* the daemon's registrar sends the register once the preorder is mined
registrar_register ==
    \E e \in queue :
        /\ e.type = "preorder"
        /\ \A tx \in mempool : tx.txid # e.tx_hash
        /\ names[e.name].preordered /\ ~names[e.name].registered
        /\ \A r \in queue : ~(r.type = "register" /\ r.name = e.name)
        /\ is_address_usable
        /\ nexttx < MaxTx
        /\ balance >= 1
        /\ Broadcast("register", e.name, None, None)
        /\ last' = Idle
        /\ UNCHANGED <<names, fee, wk, sync, reveal, lzf, snv, daemon, store, flows, info, others>>

\* the daemon's poller retires an entry whose transaction is confirmed
queue_retire ==
    \E e \in queue :
        /\ \A tx \in mempool : tx.txid # e.tx_hash
        /\ queue' = queue \ {e}
        /\ last' = Idle
        /\ UNCHANGED <<names, mempool, balance, nexttx, fee, wk, sync, reveal, lzf, snv, daemon, store, flows, info, others>>

Init ==
    /\ names \in [Names -> InitialRecords]
    /\ mempool = {}
    /\ queue = {}
    /\ balance \in {0, 1, MaxBalance}
    /\ nexttx = 0
    /\ last = Idle
    /\ fee = None
    /\ wk = None
    /\ sync = None
    /\ reveal = None
    /\ lzf = None
    /\ snv = None
    /\ daemon = None
    /\ store = None
    /\ flows = None
    /\ info = None
    /\ others \in {0, MAXIMUM_NAMES_PER_ADDRESS + 1}

Next ==
    \/ cli_update
    \/ cli_transfer
    \/ cli_register
    \/ cli_renew
    \/ cli_revoke
    \/ cli_migrate
    \/ cli_set_zonefile_hash
    \/ cli_unqueue
    \/ cli_exit
    \/ registrar_register
    \/ queue_retire
    \/ Mine

Spec == Init /\ [][Next]_vars

(***************************************************************************)
(* Fee estimation on its own: the estimates of one operation, for every    *)
(* answer of the live estimator and of the fee-rate service.               *)
(***************************************************************************)
FeeOps == {"register", "update", "transfer", "renew"}
Pending == FeeReply("pending", "", NoInt, NoInt, NoInt, NoInt, {})

\* register reads all of inp; update and transfer read est, rate, bal;
\* renew reads cost and est
FeeCase(o, i, e, b) == [op |-> o, inp |-> i, est |-> e, bal |-> b]
PlainFeeInputs ==
    {i \in FeeInputs : i.payment_key /\ ~i.utxo_fail /\ ~i.pre.some
                       /\ ~i.reg.some /\ ~i.upd.some}
FeeCases ==
    {FeeCase("register", i, NoInt, TRUE) : i \in FeeInputs}
    \cup {FeeCase(o, i, e, b) :
            o \in {"update", "transfer"},
            i \in {j \in PlainFeeInputs : j.cost = "ok"},
            e \in Estimates, b \in BOOLEAN}
    \cup {FeeCase("renew", i, e, TRUE) :
            i \in {j \in PlainFeeInputs : ~j.rate.some}, e \in Estimates}

\* what the caller of the estimate gets back, and the fee it goes by
FeeOut(reply, used) == [reply |-> reply, used |-> used]

fees_register ==
    /\ fee.case.op = "register"
    /\ fee.out.reply = Pending
    /\ LET reply == get_total_registration_fees(fee.case.inp)
       IN  fee' = [fee EXCEPT !.out = FeeOut(reply, reply.total_estimated_cost)]
    /\ UNCHANGED <<names, mempool, queue, balance, nexttx, last, wk, sync, reveal, lzf, snv, daemon, store, flows, info, others>>

fees_sanity ==
    /\ fee.case.op \in {"update", "transfer"}
    /\ fee.out.reply = Pending
    /\ LET dest == IF fee.case.op = "transfer" THEN "A_24" ELSE None
           env == [est |-> fee.case.est, rate |-> fee.case.inp.rate,
                   bal |-> fee.case.bal, refuses_at_cap |-> TRUE]
           res == operation_sanity_check("n1.id", dest, env)
           used == sanity_tx_fee(dest, env.est, env.rate)
       IN  fee' = [fee EXCEPT !.out =
                     FeeOut(FeeReply(res.kind, res.msg, NoInt, NoInt, NoInt,
                                     NoInt, {}), used)]
    /\ UNCHANGED <<names, mempool, queue, balance, nexttx, last, wk, sync, reveal, lzf, snv, daemon, store, flows, info, others>>

fees_renew ==
    /\ fee.case.op = "renew"
    /\ fee.out.reply = Pending
    /\ LET reply == renewal_fees(fee.case.inp.cost, fee.case.est)
       IN  fee' = [fee EXCEPT !.out = FeeOut(reply, reply.total_estimated_cost)]
    /\ UNCHANGED <<names, mempool, queue, balance, nexttx, last, wk, sync, reveal, lzf, snv, daemon, store, flows, info, others>>

\* the name is the wallet's, the payment address is funded and quiet
InitFee ==
    /\ names = [n \in Names |-> RegisteredTo(OwnerAddr)]
    /\ mempool = {}
    /\ queue = {}
    /\ balance = MaxBalance
    /\ nexttx = 0
    /\ last = Idle
    /\ fee \in {[case |-> c, out |-> FeeOut(Pending, NoInt)] : c \in FeeCases}
    /\ wk = None
    /\ sync = None
    /\ reveal = None
    /\ lzf = None
    /\ snv = None
    /\ daemon = None
    /\ store = None
    /\ flows = None
    /\ info = None
    /\ others = 0

NextFee ==
    \/ fees_register
    \/ fees_sanity
    \/ fees_renew

SpecFee == InitFee /\ [][NextFee]_vars

(***************************************************************************)
(* get_wallet_keys on its own, for every answer of the wallet file, the    *)
(* unlock and the three get_wallet attempts.                               *)
(***************************************************************************)
wallet_fetch ==
    /\ wk.out.ret = "pending"
    /\ wk' = [wk EXCEPT !.out = get_wallet_keys(wk.w)]
    /\ UNCHANGED <<names, mempool, queue, balance, nexttx, last, fee, sync, reveal, lzf, snv, daemon, store, flows, info, others>>

InitWallet ==
    /\ names = [n \in Names |-> NoRecord]
    /\ mempool = {}
    /\ queue = {}
    /\ balance = 0
    /\ nexttx = 0
    /\ last = Idle
    /\ fee = None
    /\ wk \in {[w |-> w, out |-> WalletRet("pending", 0, <<>>)] : w \in WalletInputs}
    /\ sync = None
    /\ reveal = None
    /\ lzf = None
    /\ snv = None
    /\ daemon = None
    /\ store = None
    /\ flows = None
    /\ info = None
    /\ others = 0

NextWallet == wallet_fetch

SpecWallet == InitWallet /\ [][NextWallet]_vars

(***************************************************************************)
(* cli_sync_zonefile on its own, for every txid and zonefile argument,     *)
(* pending update queue, stored zonefile, name record and name history.    *)
(***************************************************************************)
NAME_UPDATE == "NAME_UPDATE"
NAME_TRANSFER == "NAME_TRANSFER"

\* the rows queuedb_find('update', name) gives, oldest first; row k was
\* written for transaction "q<k>"
QueuedRows(k) ==
    {[zonefile |-> None, tx_hash |-> "q" \o ToString(k)],
     [zonefile |-> "A1.txt", tx_hash |-> "q" \o ToString(k)],
     [zonefile |-> "A1.txt", tx_hash |-> None]}
QueuedData ==
    UNION {{q \in [1..n -> UNION {QueuedRows(k) : k \in 1..n}] :
                \A k \in 1..n : q[k] \in QueuedRows(k)} : n \in 0..MaxQueued}

\* name_rec['history'], by increasing block height; the item at height k
\* was written by transaction "h<k>"
HistoryItems(k) ==
    {[op |-> None, value_hash |-> None, txid |-> "h" \o ToString(k)],
     [op |-> NAME_TRANSFER, value_hash |-> get_zonefile_data_hash("A1.txt"),
      txid |-> "h" \o ToString(k)],
     [op |-> NAME_UPDATE, value_hash |-> None, txid |-> "h" \o ToString(k)],
     [op |-> NAME_UPDATE, value_hash |-> get_zonefile_data_hash("A1.txt"),
      txid |-> "h" \o ToString(k)],
     [op |-> NAME_UPDATE, value_hash |-> get_zonefile_data_hash("B1.txt"),
      txid |-> "h" \o ToString(k)],
     [op |-> NAME_UPDATE, value_hash |-> get_zonefile_data_hash("A1.txt"),
      txid |-> None]}
Histories ==
    UNION {{h \in [1..n -> UNION {HistoryItems(k) : k \in 1..n}] :
                \A k \in 1..n : h[k] \in HistoryItems(k)} : n \in 0..MaxHistory}

NameRec(k, o, vh, t, h) ==
    [kind |-> k, op |-> o, value_hash |-> vh, txid |-> t, history |-> h]
NameRecs ==
    {NameRec("error", None, None, None, <<>>)}
    \cup {NameRec("rec", NAME_UPDATE, vh, t, <<>>) :
            vh \in {None, get_zonefile_data_hash("A1.txt"),
                    get_zonefile_data_hash("B1.txt")},
            t \in {None, "cur"}}
    \cup {NameRec("rec", NAME_UPDATE, get_zonefile_data_hash("B1.txt"), "cur", h) :
            h \in Histories}
    \cup {NameRec("rec", NAME_TRANSFER, vh, "cur", h) :
            vh \in {None, get_zonefile_data_hash("A1.txt")}, h \in Histories}

\* args.txid, args.zonefile, interactive, the answer to the prompt,
\* nonstandard, and what the queue, the storage drivers and the server give
SyncInputs ==
    {a \in [txid : {None, "arg"}, zonefile : {None, "A1.txt", "garbage"},
            interactive : BOOLEAN, proceed : BOOLEAN, nonstandard : BOOLEAN,
            queued : QueuedData, storage : {None, "error", "B1.txt"},
            name_rec : NameRecs] :
        /\ a.zonefile # "garbage" => a.interactive /\ a.proceed /\ ~a.nonstandard
        /\ a.interactive => ~a.nonstandard
        /\ ~a.interactive => a.proceed}

\* replicated: zonefile_data_replicate was called, with txid and data
SyncOut(k, m, vh, r, t, d) ==
    [kind |-> k, msg |-> m, value_hash |-> vh, replicated |-> r,
     txid |-> t, data |-> d]
SyncError(m) == SyncOut("error", m, None, FALSE, None, None)

\* lines 2758-2783: the zonefile argument; stop when it is invalid and the
\* user (or the mode) declines
sync_given(a) ==
    LET user_data_res == load_zonefile("n1.id", a.zonefile, TRUE)
        valid == user_data_res.kind # "error" \/ user_data_res.identical
    IN  IF a.zonefile = None THEN [stop |-> FALSE, user_data |-> None]
        ELSE IF valid THEN [stop |-> FALSE, user_data |-> user_data_res.zonefile]
        ELSE IF a.interactive
        THEN [stop |-> ~a.proceed, user_data |-> a.zonefile]
        ELSE [stop |-> ~a.nonstandard, user_data |-> a.zonefile]

\* lines 2788-2799: the first queued update that carries a zonefile
RECURSIVE first_queued(_, _)
first_queued(queued_data, k) ==
    IF k > Len(queued_data)
    THEN [found |-> FALSE, zonefile |-> None, tx_hash |-> None]
    ELSE IF queued_data[k].zonefile = None
    THEN first_queued(queued_data, k + 1)
    ELSE [found |-> TRUE, zonefile |-> queued_data[k].zonefile,
          tx_hash |-> queued_data[k].tx_hash]

\* lines 2832-2851: for history_key in reversed(sorted(name_history))
RECURSIVE history_txid(_, _, _)
history_txid(name_history, k, zonefile_hash) ==
    IF k = 0 THEN None
    ELSE LET name_history_item == name_history[k]
         IN  IF \/ name_history_item.op = None
                \/ name_history_item.op # NAME_UPDATE
                \/ name_history_item.value_hash = None
                \/ name_history_item.value_hash # zonefile_hash
             THEN history_txid(name_history, k - 1, zonefile_hash)
             ELSE name_history_item.txid

\* lines 2829-2851: the txid from the current record or the history
record_txid(name_rec, zonefile_hash) ==
    IF name_rec.op = NAME_UPDATE
    THEN IF name_rec.value_hash = zonefile_hash THEN name_rec.txid ELSE None
    ELSE history_txid(name_rec.history, Len(name_rec.history), zonefile_hash)

\* lines 2858-2868: zonefile_data_replicate and the result
sync_replicate(user_data, txid, zonefile_hash, replicate_ok) ==
    IF replicate_ok
    THEN SyncOut("status", "", zonefile_hash, TRUE, txid, user_data)
    ELSE SyncOut("error", "replicate", None, TRUE, txid, user_data)

\* replication without the last look at the txid
sync_finish_unchecked(user_data, txid, zonefile_hash, replicate_ok) ==
    sync_replicate(user_data, txid, zonefile_hash, replicate_ok)

\* lines 2853-2868: no txid, no replication
sync_finish(user_data, txid, zonefile_hash, replicate_ok) ==
    IF txid = None
    THEN SyncError("Unable to lookup txid that wrote zonefile")
    ELSE sync_replicate(user_data, txid, zonefile_hash, replicate_ok)

\* lines 2785-2813: the zonefile the hash is taken of, from the queue,
\* else the argument, else the storage drivers
sync_user_data(a) ==
    LET q == first_queued(a.queued, 1)
        queued_user_data == IF q.found THEN q.zonefile ELSE sync_given(a).user_data
    IN  IF queued_user_data = None THEN a.storage ELSE queued_user_data

cli_sync_zonefile(a, replicate_ok) ==
    LET given == sync_given(a)
        q == first_queued(a.queued, 1)
        queued_user_data == IF q.found THEN q.zonefile ELSE given.user_data
        queued_txid == IF q.found THEN q.tx_hash ELSE a.txid
        user_data == sync_user_data(a)
        zonefile_hash == get_zonefile_data_hash(user_data)
        txid == IF queued_txid # None THEN queued_txid
                ELSE record_txid(a.name_rec, zonefile_hash)
    IN  IF given.stop
        THEN SyncError("Not replicating invalid zone file")
        ELSE IF ~(a.txid = None \/ given.user_data = None)
        THEN sync_replicate(given.user_data, a.txid, None, replicate_ok)
        ELSE IF queued_user_data = None /\ a.storage = None
        THEN SyncError("No data loaded")
        ELSE IF queued_user_data = None /\ a.storage = "error"
        THEN SyncError("storage")
        ELSE IF queued_txid = None /\ a.name_rec.kind = "error"
        THEN SyncError("Failed to get name record to look up tx hash.")
        ELSE sync_finish(user_data, txid, zonefile_hash, replicate_ok)

sync_zonefile ==
    /\ sync.out.kind = "pending"
    /\ \E replicate_ok \in BOOLEAN :
            sync' = [sync EXCEPT !.out = cli_sync_zonefile(sync.args, replicate_ok)]
    /\ UNCHANGED <<names, mempool, queue, balance, nexttx, last, fee, wk, reveal, lzf, snv, daemon, store, flows, info, others>>

\* the chain holds the record the server answers with
InitSync ==
    /\ sync \in {[args |-> a, out |-> SyncOut("pending", "", None, FALSE, None, None)] :
                    a \in SyncInputs}
    /\ names = [n \in Names |->
                  IF sync.args.name_rec.kind = "error" THEN NoRecord
                  ELSE [RegisteredTo(OwnerAddr) EXCEPT
                            !.value_hash = sync.args.name_rec.value_hash]]
    /\ mempool = {}
    /\ queue = {}
    /\ balance = 0
    /\ nexttx = 0
    /\ last = Idle
    /\ fee = None
    /\ wk = None
    /\ reveal = None
    /\ lzf = None
    /\ snv = None
    /\ daemon = None
    /\ store = None
    /\ flows = None
    /\ info = None
    /\ others = 0

NextSync == sync_zonefile

SpecSync == InitSync /\ [][NextSync]_vars

(***************************************************************************)
(* cli_namespace_reveal on its own, for every bucket_exponents CSV.        *)
(***************************************************************************)
\* args.bucket_exponents.split(','): n fields, all `fill` but the one
\* at position at
Csv(n, fill, at, field) == [i \in 1..n |-> IF i = at THEN field ELSE fill]
CsvLengths == {1, BucketCount - 1, BucketCount, BucketCount + 1}
BucketArgs ==
    {Csv(n, fill, at, field) :
        n \in CsvLengths, fill \in {"0", "15"}, at \in 1..(BucketCount + 1),
        field \in Fields}

\* args.lifetime; the other integer arguments parse or do not
RevealInputs ==
    [bucket_exponents : BucketArgs, lifetime : {"-1", "7", "x"},
     others_ok : BOOLEAN]

\* lines 2175-2177: a negative lifetime becomes 0xffffffff, "infinite"
Lifetime(v) ==
    IF v < 0 THEN [infinite |-> TRUE, v |-> 0] ELSE [infinite |-> FALSE, v |-> v]

RevealOut(k, m, b, l) ==
    [kind |-> k, msg |-> m, bucket_exponents |-> b, lifetime |-> l]

\* lines 2167-2173: some field is not an integer of 0..15
bad_exponent(bucket_exponents) ==
    \E i \in 1..Len(bucket_exponents) :
        \/ ~int(bucket_exponents[i]).ok
        \/ ~(0 <= int(bucket_exponents[i]).v /\ int(bucket_exponents[i]).v < MaxExponent + 1)

\* lines 2175-2192: the other arguments, then the call
reveal_call(args) ==
    LET bucket_exponents == args.bucket_exponents
        lifetime == int(args.lifetime)
    IN  IF ~lifetime.ok \/ ~args.others_ok
        THEN RevealOut("raise", "ValueError", <<>>, Lifetime(0))
        ELSE RevealOut("called", "",
                       [i \in 1..Len(bucket_exponents) |-> int(bucket_exponents[i]).v],
                       Lifetime(lifetime.v))

\* the check of the length alone, without the look at each field
cli_namespace_reveal_unchecked(args) ==
    IF Len(args.bucket_exponents) # BucketCount
    THEN RevealOut("error", "bucket_exponents must be a 16-value CSV of integers",
                   <<>>, Lifetime(0))
    ELSE reveal_call(args)

cli_namespace_reveal(args) ==
    IF Len(args.bucket_exponents) # BucketCount
    THEN RevealOut("error", "bucket_exponents must be a 16-value CSV of integers",
                   <<>>, Lifetime(0))
    ELSE IF bad_exponent(args.bucket_exponents)
    THEN RevealOut("error",
                   "bucket_exponents must contain integers between 0 and 15, inclusively.",
                   <<>>, Lifetime(0))
    ELSE reveal_call(args)

reveal_namespace ==
    /\ reveal.out.kind = "pending"
    /\ reveal' = [reveal EXCEPT !.out = cli_namespace_reveal(reveal.args)]
    /\ UNCHANGED <<names, mempool, queue, balance, nexttx, last, fee, wk, sync, lzf, snv, daemon, store, flows, info, others>>

InitReveal ==
    /\ reveal \in {[args |-> a, out |-> RevealOut("pending", "", <<>>, Lifetime(0))] :
                      a \in RevealInputs}
    /\ names = [n \in Names |-> NoRecord]
    /\ mempool = {}
    /\ queue = {}
    /\ balance = 0
    /\ nexttx = 0
    /\ last = Idle
    /\ fee = None
    /\ wk = None
    /\ sync = None
    /\ lzf = None
    /\ snv = None
    /\ daemon = None
    /\ store = None
    /\ flows = None
    /\ info = None
    /\ others = 0

NextReveal == reveal_namespace

SpecReveal == InitReveal /\ [][NextReveal]_vars

(***************************************************************************)
(* load_zonefile on its own, for every payload, name and current record.   *)
(***************************************************************************)
ZonefileArgs == PayloadBytes \cup {None}
ZonefileNames == Names \cup {"other.id"}
ZonefileRecords ==
    {NoRecord}
    \cup {[RegisteredTo(OwnerAddr) EXCEPT !.value_hash = h] :
            h \in {None, get_zonefile_data_hash("A1.txt"),
                   get_zonefile_data_hash("B1.txt")}}

load_a_zonefile ==
    /\ lzf.out.kind = "pending"
    /\ lzf' = [lzf EXCEPT !.out = load_zonefile(lzf.fqu, str(lzf.zonefile_data),
                                              lzf.check_current)]
    /\ UNCHANGED <<names, mempool, queue, balance, nexttx, last, fee, wk, sync, reveal, snv, daemon, store, flows, info, others>>

InitZonefile ==
    /\ lzf \in [fqu : ZonefileNames, zonefile_data : ZonefileArgs,
               check_current : BOOLEAN,
               out : {[kind |-> "pending", msg |-> "", identical |-> FALSE,
                       zonefile |-> None]}]
    /\ names \in [Names -> ZonefileRecords]
    /\ mempool = {}
    /\ queue = {}
    /\ balance = 0
    /\ nexttx = 0
    /\ last = Idle
    /\ fee = None
    /\ wk = None
    /\ sync = None
    /\ reveal = None
    /\ snv = None
    /\ daemon = None
    /\ store = None
    /\ flows = None
    /\ info = None
    /\ others = 0

NextZonefile == load_a_zonefile

SpecZonefile == InitZonefile /\ [][NextZonefile]_vars

(***************************************************************************)
(* cli_lookup_snv on its own: Simple Name Verification of a record at      *)
(* block_id against a trust anchor at a greater height, with a server      *)
(* that answers what it likes.                                             *)
(***************************************************************************)
\* the name operations a block can hold, and the consensus hash of a block:
\* a hash of the previous consensus hash and the block's operations
BlockOps == {"a", "b"}
consensus_hash(prev, ops) == "H(" \o prev \o "," \o ops \o ")"

\* the consensus hash after the first k of the blocks ops, from prev
RECURSIVE chain_hash(_, _, _)
chain_hash(prev, ops, k) ==
    IF k = 0 THEN prev
    ELSE consensus_hash(chain_hash(prev, ops, k - 1), ops[k])

OpSeqs(n) == [1..n -> BlockOps]
PrevHashes == {"g", "x"}
TrustAnchors ==
    {"bogus"}
        \cup UNION {{chain_hash(p, s, n) : p \in PrevHashes, s \in OpSeqs(n)} :
                        n \in 2..MaxHeight}

\* args.block_id as typed
BlockIds == {"1", "2", "3", "x"}

\* the arguments, and the server's answers: the record it claims for
\* block_id, the consensus hash before block_id, the operations of the
\* blocks block_id..anchor_height, the consensus hashes of these blocks
\* (the one at position tamper is made up), and whether it reports success
SnvInputs ==
    UNION {[block_id : {b \in BlockIds : int(b).ok => int(b).v < MaxHeight},
            span : {n}, rec : BlockOps, prev : PrevHashes, ops : OpSeqs(n),
            tamper : 0..n, trust_anchor : TrustAnchors,
            server_ok : BOOLEAN, reachable : BOOLEAN] : n \in 2..MaxHeight}

\* the consensus hash the server gives for the k-th block
claimed_hash(a, k) ==
    IF k = 0 THEN a.prev
    ELSE IF k = a.tamper THEN "bogus"
    ELSE chain_hash(a.prev, a.ops, k)

SnvOut(k, m, r) == [kind |-> k, msg |-> m, rec |-> r]

\* the lookup that takes the server's word for the chain
lookup_snv_trusting(a) ==
    IF ~a.reachable
    THEN SnvOut("error", "connection", None)
    ELSE IF ~a.server_ok
    THEN SnvOut("error", "verification", None)
    ELSE SnvOut("verified", "", a.rec)

\* snv.lookup_snv: every link from block_id to the anchor is recomputed;
\* the record is returned only if it is in its block and the chain ends in
\* the trust anchor
lookup_snv(a) ==
    IF ~a.reachable
    THEN SnvOut("error", "connection", None)
    ELSE IF \E k \in 1..a.span :
                consensus_hash(claimed_hash(a, k - 1), a.ops[k]) # claimed_hash(a, k)
    THEN SnvOut("error", "verification", None)
    ELSE IF claimed_hash(a, a.span) # a.trust_anchor
    THEN SnvOut("error", "verification", None)
    ELSE IF a.rec # a.ops[1]
    THEN SnvOut("error", "verification", None)
    ELSE SnvOut("verified", "", a.rec)

\* lines 2474-2480: int(args.block_id), then the result of lookup_snv
cli_lookup_snv(a) ==
    IF ~int(a.block_id).ok
    THEN SnvOut("raise", "ValueError", None)
    ELSE lookup_snv(a)

snv_lookup ==
    /\ snv.out.kind = "pending"
    /\ snv' = [snv EXCEPT !.out = cli_lookup_snv(snv.args)]
    /\ UNCHANGED <<names, mempool, queue, balance, nexttx, last, fee, wk, sync,
                   reveal, lzf, daemon, store, flows, info, others>>

InitSnv ==
    /\ snv \in {[args |-> a, out |-> SnvOut("pending", "", None)] : a \in SnvInputs}
    /\ names = [n \in Names |-> NoRecord]
    /\ mempool = {}
    /\ queue = {}
    /\ balance = 0
    /\ nexttx = 0
    /\ last = Idle
    /\ fee = None
    /\ wk = None
    /\ sync = None
    /\ reveal = None
    /\ lzf = None
    /\ daemon = None
    /\ store = None
    /\ flows = None
    /\ info = None
    /\ others = 0

NextSnv == snv_lookup

SpecSnv == InitSnv /\ [][NextSnv]_vars

(***************************************************************************)
(* The daemon's queue with the blocks counted: cli_register queues the     *)
(* preorder, the registrar polls the queue, sends the register once the    *)
(* preorder has its confirmations and retires the entries that have        *)
(* theirs; cli_unqueue removes an entry by hand.                           *)
(***************************************************************************)
Txids == {Txid(i) : i \in 1..MaxTx}
Unmined == [type |-> "none", n |-> 0]
Polled(what, txid) == [what |-> what, tx_hash |-> txid]

\* the confirmations past which an entry is retired: 6 for most
\* operations, MAX_TX_CONFIRMATIONS for a preorder
retire_threshold(type) ==
    IF type = "preorder" THEN MAX_TX_CONFIRMATIONS ELSE PREORDER_CONFIRMATIONS

\* get_tx_confirmations, as the poller last observed it
confirmations(txid) == daemon.confs[txid].n

\* one more block on every mined transaction; the count stops one past the
\* threshold, from where on nothing depends on it
one_more_block(confs) ==
    [t \in Txids |->
        IF confs[t].n = 0 \/ confs[t].n > retire_threshold(confs[t].type)
        THEN confs[t]
        ELSE [confs[t] EXCEPT !.n = confs[t].n + 1]]

\* a block is found; a transaction of the mempool is mined in it
new_block ==
    /\ \/ \E tx \in mempool :
            /\ names' = [names EXCEPT ![tx.name] = chain_apply(names[tx.name], tx)]
            /\ mempool' = mempool \ {tx}
            /\ daemon' = [daemon EXCEPT
                    !.confs = [one_more_block(daemon.confs) EXCEPT
                                    ![tx.txid] = [type |-> tx.type, n |-> 1]]]
       \/ /\ mempool = {}
          /\ one_more_block(daemon.confs) # daemon.confs
          /\ daemon' = [daemon EXCEPT !.confs = one_more_block(daemon.confs)]
          /\ UNCHANGED <<names, mempool>>
    /\ last' = Idle
    /\ UNCHANGED <<queue, balance, nexttx, fee, wk, sync, reveal, lzf, snv, store, flows, info, others>>

\* a registrar that sends the register as soon as the preorder is mined
registrar_poll_unconfirmed ==
    \E e \in queue :
        /\ e.type = "preorder"
        /\ \A r \in queue : ~(r.type = "register" /\ r.name = e.name)
        /\ ~names[e.name].registered
        /\ IF confirmations(e.tx_hash) < 1
           THEN /\ daemon' = [daemon EXCEPT !.polled = Polled("wait", e.tx_hash)]
                /\ UNCHANGED <<mempool, queue, balance, nexttx>>
           ELSE /\ is_address_usable
                /\ nexttx < MaxTx
                /\ balance >= 1
                /\ Broadcast("register", e.name, None, None)
                /\ daemon' = [daemon EXCEPT !.polled = Polled("register", e.tx_hash)]
        /\ last' = Idle
        /\ UNCHANGED <<names, fee, wk, sync, reveal, lzf, snv, store, flows, info, others>>

\* the registrar looks at a queued preorder: before PREORDER_CONFIRMATIONS
\* nothing is sent and the entry waits for the next poll; from then on the
\* register is sent
registrar_poll ==
    \E e \in queue :
        /\ e.type = "preorder"
        /\ \A r \in queue : ~(r.type = "register" /\ r.name = e.name)
        /\ ~names[e.name].registered
        /\ IF confirmations(e.tx_hash) < PREORDER_CONFIRMATIONS
           THEN /\ daemon' = [daemon EXCEPT !.polled = Polled("wait", e.tx_hash)]
                /\ UNCHANGED <<mempool, queue, balance, nexttx>>
           ELSE /\ is_address_usable
                /\ nexttx < MaxTx
                /\ balance >= 1
                /\ Broadcast("register", e.name, None, None)
                /\ daemon' = [daemon EXCEPT !.polled = Polled("register", e.tx_hash)]
        /\ last' = Idle
        /\ UNCHANGED <<names, fee, wk, sync, reveal, lzf, snv, store, flows, info, others>>

\* a poller that retires an entry as soon as its transaction is mined
retire_poll_early ==
    \E e \in queue :
        /\ confirmations(e.tx_hash) > 0
        /\ queue' = queue \ {e}
        /\ daemon' = [daemon EXCEPT !.polled = Polled("retire", e.tx_hash)]
        /\ last' = Idle
        /\ UNCHANGED <<names, mempool, balance, nexttx, fee, wk, sync, reveal, lzf, snv, store, flows, info, others>>

\* the poller retires an entry whose confirmations exceed the threshold
retire_poll ==
    \E e \in queue :
        /\ confirmations(e.tx_hash) > retire_threshold(e.type)
        /\ queue' = queue \ {e}
        /\ daemon' = [daemon EXCEPT !.polled = Polled("retire", e.tx_hash)]
        /\ last' = Idle
        /\ UNCHANGED <<names, mempool, balance, nexttx, fee, wk, sync, reveal, lzf, snv, store, flows, info, others>>

InitQueue ==
    /\ names \in [Names -> {NoRecord}]
    /\ mempool = {}
    /\ queue = {}
    /\ balance = MaxBalance
    /\ nexttx = 0
    /\ last = Idle
    /\ fee = None
    /\ wk = None
    /\ sync = None
    /\ reveal = None
    /\ lzf = None
    /\ snv = None
    /\ daemon = [confs |-> [t \in Txids |-> Unmined], polled |-> Polled("none", None)]
    /\ store = None
    /\ flows = None
    /\ info = None
    /\ others = 0

NextQueue ==
    \/ cli_register
    \/ cli_unqueue
    \/ cli_exit
    \/ new_block
    \/ registrar_poll
    \/ retire_poll

\* the poller is a periodic task: an entry it can retire is retired
SpecQueue == InitQueue /\ [][NextQueue]_vars /\ WF_vars(retire_poll)

(***************************************************************************)
(* The on-disk queue store.  The CLI-invoked flows (enqueue on broadcast,  *)
(* cli_unqueue) and the background poller (confirmation update, removal)   *)
(* both write it: a writer locks the store, reads it, and writes back what *)
(* it read with its change applied.                                        *)
(***************************************************************************)
Writers == {"cli", "poller"}

StoreRow(t, c) ==
    [type |-> "update", name |-> "n1.id", tx_hash |-> t, confirmations |-> c]

StoreOp(k, t) == [kind |-> k, tx_hash |-> t]
NoStoreOp == StoreOp("none", None)

\* the changes a writer makes
StoreOps(p) ==
    IF p = "cli"
    THEN {StoreOp(k, t) : k \in {"enqueue", "unqueue"}, t \in Txids}
    ELSE {StoreOp(k, t) : k \in {"confirm", "remove"}, t \in Txids}

\* the rows after the change, from the rows read
store_apply(op, rows) ==
    CASE op.kind = "enqueue" ->
            IF \E r \in rows : r.tx_hash = op.tx_hash THEN rows
            ELSE rows \cup {StoreRow(op.tx_hash, 0)}
      [] op.kind = "confirm" ->
            {IF r.tx_hash = op.tx_hash /\ r.confirmations < MaxSeen
             THEN [r EXCEPT !.confirmations = @ + 1] ELSE r : r \in rows}
      [] op.kind = "remove" ->
            {r \in rows : ~(r.tx_hash = op.tx_hash /\ r.confirmations = MaxSeen)}
      [] op.kind = "unqueue" ->
            \* queuedb_remove(queue_id, name, txid)
            {r \in rows : ~(r.type = "update" /\ r.name = "n1.id"
                            /\ r.tx_hash = op.tx_hash)}
      [] OTHER -> rows

Writer(pc, op, seen) == [pc |-> pc, op |-> op, seen |-> seen]

\* a writer that starts its cycle without waiting for the lock
store_lock_shared ==
    \E p \in Writers : \E op \in StoreOps(p) :
        /\ store.procs[p].pc = "idle"
        /\ store' = [store EXCEPT !.lock = p,
                                  !.procs[p] = Writer("locked", op, {})]
        /\ UNCHANGED <<names, mempool, queue, balance, nexttx, last, fee, wk, sync, reveal, lzf, snv, daemon, flows, info, others>>

\* a writer takes the exclusive lock: it waits while another holds it
store_lock ==
    \E p \in Writers : \E op \in StoreOps(p) :
        /\ store.procs[p].pc = "idle"
        /\ store.lock = None
        /\ store' = [store EXCEPT !.lock = p,
                                  !.procs[p] = Writer("locked", op, {})]
        /\ UNCHANGED <<names, mempool, queue, balance, nexttx, last, fee, wk, sync, reveal, lzf, snv, daemon, flows, info, others>>

\* the writer reads the store
store_read ==
    \E p \in Writers :
        /\ store.procs[p].pc = "locked"
        /\ store' = [store EXCEPT !.procs[p] =
                        Writer("read", store.procs[p].op, store.rows)]
        /\ UNCHANGED <<names, mempool, queue, balance, nexttx, last, fee, wk, sync, reveal, lzf, snv, daemon, flows, info, others>>

\* the writer writes the store back and lets the lock go; applied is the
\* store with every change made so far, in the order they were written
store_write ==
    \E p \in Writers :
        /\ store.procs[p].pc = "read"
        /\ store' = [store EXCEPT
                        !.rows = store_apply(store.procs[p].op, store.procs[p].seen),
                        !.applied = store_apply(store.procs[p].op, store.applied),
                        !.lock = IF store.lock = p THEN None ELSE store.lock,
                        !.procs[p] = Writer("idle", NoStoreOp, {})]
        /\ UNCHANGED <<names, mempool, queue, balance, nexttx, last, fee, wk, sync, reveal, lzf, snv, daemon, flows, info, others>>

InitStore ==
    /\ store = [rows |-> {}, applied |-> {}, lock |-> None,
                procs |-> [p \in Writers |-> Writer("idle", NoStoreOp, {})]]
    /\ names = [n \in Names |-> NoRecord]
    /\ mempool = {}
    /\ queue = {}
    /\ balance = 0
    /\ nexttx = 0
    /\ last = Idle
    /\ fee = None
    /\ wk = None
    /\ sync = None
    /\ reveal = None
    /\ lzf = None
    /\ snv = None
    /\ daemon = None
    /\ flows = None
    /\ info = None
    /\ others = 0

NextStore ==
    \/ store_lock
    \/ store_read
    \/ store_write

SpecStore == InitStore /\ [][NextStore]_vars

(***************************************************************************)
(* Two cli_update calls from the same wallet, on different names, running  *)
(* at the same time: each makes its sanity check and then its              *)
(* backend_update, and the steps of the two interleave in any order.       *)
(***************************************************************************)
ParallelNames == {"n1.id", "n2.id"}

\* env: what the collaborators answer this call; alone: what the sanity
\* check gives when no other call runs
Flow(pc, env, alone, sanity, result) ==
    [pc |-> pc, env |-> env, alone |-> alone, sanity |-> sanity, result |-> result]

\* lines 1264-1269: res = operation_sanity_check(..); if 'error' in res: return res
flow_check ==
    \E fqu \in ParallelNames :
        LET f == flows[fqu]
            res == operation_sanity_check(fqu, None, f.env)
        IN  /\ f.pc = "start"
            /\ flows' = [flows EXCEPT ![fqu] =
                            IF HasError(res)
                            THEN Flow("done", f.env, f.alone, res, res)
                            ELSE Flow("checked", f.env, f.alone, res, NotRun)]
            /\ UNCHANGED <<names, mempool, queue, balance, nexttx, last, fee, wk, sync, reveal, lzf, snv, daemon, store, info, others>>

\* lines 1271-1299: resp = rpc.backend_update(..) and the reply handling
flow_send ==
    \E fqu \in ParallelNames, reply \in {"success", "error"} :
        LET f == flows[fqu]
        IN  /\ f.pc = "checked"
            /\ IF reply = "success"
               THEN /\ nexttx < MaxTx
                    /\ balance >= 1
                    /\ Broadcast("update", fqu, get_zonefile_data_hash("A1.txt"), "A1.txt")
                    /\ flows' = [flows EXCEPT ![fqu] =
                            Flow("done", f.env, f.alone, f.sanity, Success(Txid(nexttx + 1)))]
               ELSE /\ NoBroadcast
                    /\ flows' = [flows EXCEPT ![fqu] =
                            Flow("done", f.env, f.alone, f.sanity, Error("backend error"))]
            /\ UNCHANGED <<names, last, fee, wk, sync, reveal, lzf, snv, daemon, store, info, others>>

\* both names are the wallet's; nothing of the wallet's is unconfirmed
InitParallel ==
    /\ names = [n \in ParallelNames |-> RegisteredTo(OwnerAddr)]
    /\ mempool = {}
    /\ queue = {}
    /\ balance \in {0, 1, MaxBalance}
    /\ nexttx = 0
    /\ last = Idle
    /\ flows \in {[n \in ParallelNames |->
                      Flow("start", e[n], operation_sanity_check(n, None, e[n]),
                           NotRun, NotRun)] :
                    e \in [ParallelNames -> SanityEnvs(None)]}
    /\ fee = None
    /\ wk = None
    /\ sync = None
    /\ reveal = None
    /\ lzf = None
    /\ snv = None
    /\ daemon = None
    /\ store = None
    /\ info = None
    /\ others = 0

NextParallel ==
    \/ flow_check
    \/ flow_send

SpecParallel == InitParallel /\ [][NextParallel]_vars

(***************************************************************************)
(* get_server_info (cli_info, cli_ping) and cli_consensus on their own,    *)
(* for every reply of the server and every queue state of the backend.     *)
(***************************************************************************)
\* getinfo(): an error reply, or a reply with some of its keys
ServerReplies ==
    {r \in [error : BOOLEAN, server_version : BOOLEAN,
            last_block_processed : BOOLEAN, last_block_seen : BOOLEAN,
            consensus : BOOLEAN, consensus_hash : BOOLEAN] :
        r.error => (~r.server_version /\ ~r.last_block_processed
                    /\ ~r.last_block_seen /\ ~r.consensus /\ ~r.consensus_hash)}
CompleteReply ==
    [error |-> FALSE, server_version |-> TRUE, last_block_processed |-> TRUE,
     last_block_seen |-> TRUE, consensus |-> TRUE, consensus_hash |-> TRUE]

\* the entries of rpc.backend_state()
DisplayTypes == {"preorder", "register", "update", "transfer"}
DisplayNames == {"n1.id", "n2.id"}
StateTxids == {"t1", "t2"}
StateEntry(type, fqu, t) == [type |-> type, fqu |-> fqu, tx_hash |-> t]
EntriesOf(type, fqus) == {StateEntry(type, n, t) : n \in fqus, t \in StateTxids}
SeqsUpTo(S, n) == UNION {[1..k -> S] : k \in 0..n}

\* the queue states considered: the preorders, the registers, at most one
\* update and one transfer, and at most one entry of another type
BackendStates ==
    {pre \o reg \o upd \o tra \o unk :
        pre \in SeqsUpTo(EntriesOf("preorder", DisplayNames), MaxEntries),
        reg \in SeqsUpTo(EntriesOf("register", DisplayNames), MaxEntries),
        upd \in SeqsUpTo(EntriesOf("update", {"n1.id"}), 1),
        tra \in SeqsUpTo(EntriesOf("transfer", {"n1.id"}), 1),
        unk \in SeqsUpTo({StateEntry("renew", "n1.id", "t1")}, 1)}

\* backend.blockchain.get_tx_confirmations: a count, or None
get_tx_confirmations(tx_hash) == IF tx_hash = "t1" THEN Some(3) ELSE NoInt

\* lines 783-797
format_new_entry(entry) ==
    LET fetched == get_tx_confirmations(entry.tx_hash)
    IN  [name |-> entry.fqu,
         \* confirmations = 0 if confirmations is None else confirmations
         confirmations |-> IF fetched.some THEN fetched.v ELSE 0,
         tx_hash |-> entry.tx_hash]

\* lines 811-817: queue_types[entry['type']].append(format_new_entry(entry))
queue_of(current_state, type) ==
    LET sel == SelectSeq(current_state, LAMBDA e : e.type = type)
    IN  [i \in 1..Len(sel) |-> format_new_entry(sel[i])]

\* list.remove(x): the first item equal to x goes
list_remove(list, x) ==
    LET i == CHOOSE k \in 1..Len(list) :
                /\ list[k] = x
                /\ \A j \in 1..(k - 1) : list[j] # x
    IN  SubSeq(list, 1, i - 1) \o SubSeq(list, i + 1, Len(list))

\* lines 806-808: for check_entry in preorder_queue, with the list changed
\* under the loop: the loop goes on at the next index of the changed list
RECURSIVE remove_matching(_, _, _)
remove_matching(preorder_queue, i, name) ==
    IF i > Len(preorder_queue) THEN preorder_queue
    ELSE IF preorder_queue[i].name = name
    THEN remove_matching(list_remove(preorder_queue, preorder_queue[i]), i + 1, name)
    ELSE remove_matching(preorder_queue, i + 1, name)

\* lines 800-808, from the j-th register entry on
RECURSIVE format_queue_display(_, _, _)
format_queue_display(preorder_queue, register_queue, j) ==
    IF j > Len(register_queue) THEN preorder_queue
    ELSE format_queue_display(
            remove_matching(preorder_queue, 1, register_queue[j].name),
            register_queue, j + 1)

InfoOut(k, m, hq, q) == [kind |-> k, msg |-> m, has_queue |-> hq, queue |-> q]
InfoResult == InfoOut("result", "", FALSE, <<>>)

\* lines 810-826: the lists, the display, and the loop that deletes the
\* empty lists from the dict it iterates over: the iterator raises
\* RuntimeError at its next step once a key is gone
queue_display(current_state) ==
    LET queue_types ==
            [t \in DisplayTypes |->
                IF t = "preorder"
                THEN format_queue_display(queue_of(current_state, "preorder"),
                                          queue_of(current_state, "register"), 1)
                ELSE queue_of(current_state, t)]
    IN  IF \E t \in DisplayTypes : Len(queue_types[t]) = 0
        THEN InfoOut("raise", "RuntimeError: dictionary changed size during iteration",
                     FALSE, <<>>)
        ELSE InfoOut("result", "", TRUE, queue_types)

\* a: resp (getinfo), startup, rpc ("none": no endpoint, "refused":
\* backend_state raises, "ok"), state (backend_state)
get_server_info(a, get_local_info) ==
    IF a.resp.error THEN InfoOut("result", "server_error", FALSE, <<>>)
    ELSE IF ~a.resp.server_version
    THEN InfoOut("raise", "Missing server version", FALSE, <<>>)
    ELSE IF ~a.resp.last_block_processed
    THEN InfoOut("raise", "Missing height of block last processed", FALSE, <<>>)
    ELSE IF ~a.resp.last_block_seen
    THEN InfoOut("raise", "Missing height of last block seen", FALSE, <<>>)
    ELSE IF ~a.resp.consensus
    THEN InfoOut("raise", "Missing consensus hash", FALSE, <<>>)
    ELSE IF ~get_local_info THEN InfoResult
    ELSE IF a.startup = "error"
    THEN InfoOut("error", "wallet or RPC endpoint", FALSE, <<>>)
    ELSE IF a.rpc = "none" THEN InfoResult
    ELSE IF a.rpc = "refused"
    THEN InfoOut("raise", "socket.error: connection refused", FALSE, <<>>)
    ELSE queue_display(a.state)

\* lines 2031-2052
consensus(a) ==
    IF a.block_height = None
    THEN IF a.resp.error THEN InfoOut("error", "getinfo", FALSE, <<>>)
         ELSE IF a.resp.last_block_processed /\ a.resp.consensus_hash
         THEN \* resp['consensns_hash']
              InfoOut("raise", "KeyError: consensns_hash", FALSE, <<>>)
         ELSE InfoOut("error", "Server is indexing.  Try again shortly.", FALSE, <<>>)
    ELSE InfoResult

InfoArgs(c, r, s, p, st, h) ==
    [call |-> c, resp |-> r, startup |-> s, rpc |-> p, state |-> st,
     block_height |-> h]

\* every reply for ping, consensus and info; every queue state for the
\* info that gets as far as the queue
InfoInputs ==
    {InfoArgs("ping", r, "ok", "ok", <<>>, None) : r \in ServerReplies}
    \cup {InfoArgs("consensus", r, "ok", "ok", <<>>, h) :
            r \in ServerReplies, h \in {None, "7"}}
    \cup {InfoArgs("info", r, s, p, <<>>, None) :
            r \in ServerReplies, s \in Startups, p \in {"none", "refused", "ok"}}
    \cup {InfoArgs("info", CompleteReply, "ok", "ok", st, None) :
            st \in BackendStates}

Answered(out) ==
    /\ info.out.kind = "pending"
    /\ info' = [info EXCEPT !.out = out]
    /\ UNCHANGED <<names, mempool, queue, balance, nexttx, last, fee, wk, sync, reveal, lzf, snv, daemon, store, flows, others>>

cli_info ==
    /\ info.args.call = "info"
    /\ Answered(get_server_info(info.args, TRUE))

cli_ping ==
    /\ info.args.call = "ping"
    /\ Answered(get_server_info(info.args, FALSE))

cli_consensus ==
    /\ info.args.call = "consensus"
    /\ Answered(consensus(info.args))

InitInfo ==
    /\ info \in {[args |-> a, out |-> InfoOut("pending", "", FALSE, <<>>)] :
                    a \in InfoInputs}
    /\ names = [n \in Names |-> NoRecord]
    /\ mempool = {}
    /\ queue = {}
    /\ balance = 0
    /\ nexttx = 0
    /\ last = Idle
    /\ fee = None
    /\ wk = None
    /\ sync = None
    /\ reveal = None
    /\ lzf = None
    /\ snv = None
    /\ daemon = None
    /\ store = None
    /\ flows = None
    /\ others = 0

NextInfo ==
    \/ cli_info
    \/ cli_ping
    \/ cli_consensus

SpecInfo == InitInfo /\ [][NextInfo]_vars

(***************************************************************************)
(* Properties                                                              *)
(***************************************************************************)
SanityOps == {"update", "transfer", "revoke", "migrate", "set_zonefile_hash"}
LifecycleOps == {"update", "transfer", "renew", "revoke"}
NothingSent ==
    /\ last'.rpc = None
    /\ mempool' = mempool
    /\ queue' = queue
    /\ nexttx' = nexttx
TooManyNames == Error("owns too many names already.")

\* C1: in cli_update, cli_transfer, cli_revoke, cli_migrate and
\* cli_set_zonefile_hash, when operation_sanity_check returns an error the
\* call returns that error, makes no backend call, broadcasts nothing and
\* leaves the queue as it was before the call.
C1_SanityErrorAtomic ==
    [][(last' # last /\ last'.op \in SanityOps /\ HasError(last'.sanity)) =>
            /\ last'.result = last'.sanity
            /\ NothingSent]_vars

\* a migrate stopped by the sanity check while an earlier update is queued
C1_Witness ==
    /\ last.op = "migrate"
    /\ last.sanity = Error("has insufficiently confirmed transactions.")
    /\ last.result = last.sanity
    /\ queue # {}
    /\ mempool # {}

\* C2: an update with data whose hash is the name's current value_hash
\* calls no backend_update, creates no queue entry and broadcasts nothing,
\* whatever the balance, the owner and the mode.
C2_IdenticalNotSent ==
    [][(/\ last' # last
        /\ last'.op = "update"
        /\ last'.data # None
        /\ get_zonefile_data_hash(last'.data)
                = get_name_blockchain_record(last'.name).value_hash) =>
            NothingSent]_vars

\* a transfer of a registered name of the wallet's that reached the
\* sanity check
ReachedTransfer ==
    /\ last' # last
    /\ last'.op = "transfer"
    /\ is_name_registered(last'.name)
    /\ is_name_owner(last'.name, OwnerAddr)
    /\ last'.sanity # NotRun

C5_RevokedTerminal ==
    [][(/\ last' # last
        /\ last'.op \in {"update", "transfer", "renew", "revoke", "migrate"}
        /\ last'.name \in Names
        /\ names[last'.name].revoked) =>
            /\ last'.result.kind \in {"error", "raise"}
            /\ NothingSent]_vars

\* a transfer of a revoked name, stopped by the sanity check
C5_Witness ==
    /\ last.op = "transfer"
    /\ last.name \in Names
    /\ names[last.name].revoked
    /\ last.sanity = Error("is not registered yet.")
    /\ last.result = last.sanity

\* an update, transfer, renew or revoke of a valid name that is not
\* registered
UnregisteredCall ==
    /\ last' # last
    /\ last'.op \in LifecycleOps
    /\ last'.name \in Names
    /\ ~is_name_registered(last'.name)

\* C6: update, transfer, renew and revoke of a name that is not registered
\* are not accepted and send nothing, with the error 'is not registered
\* yet' from the sanity check of update and transfer and 'does not exist'
\* from renew and revoke; register of a registered name returns an error
\* and sends nothing; so every accepted update, transfer, renew and revoke
\* finds the name registered.
C6_RegisteredBeforeUse ==
    [][/\ UnregisteredCall =>
            /\ last'.result.kind \in {"error", "raise"}
            /\ NothingSent
            /\ last'.sanity # NotRun => last'.result = Error("is not registered yet.")
            /\ last'.op \in {"renew", "revoke"} =>
                    last'.result \in {Error("does not exist."),
                                      Error("wallet or RPC endpoint")}
       /\ (last' # last /\ last'.op = "register" /\ is_name_registered(last'.name)) =>
            /\ HasError(last'.result)
            /\ NothingSent
       /\ (last' # last /\ last'.op \in LifecycleOps /\ last'.result.kind = "success") =>
            is_name_registered(last'.name)]_vars

\* an update of a name nobody registered, stopped by the sanity check
C6_Witness ==
    /\ last.op = "update"
    /\ last.name \in Names
    /\ ~names[last.name].registered
    /\ last.lz = "valid"
    /\ last.result = Error("is not registered yet.")

\* the entries cli_unqueue is not asked to remove
OtherEntries(q, call) ==
    {e \in q : ~(e.type = call.dest /\ e.name = call.name /\ e.tx_hash = call.data)}

\* C7: cli_unqueue removes the entry of the given queue, name and txid and
\* nothing else: no transaction is sent or withdrawn, the other entries
\* stay, and the result is {'status': True} unless the removal raised,
\* when it is an error.
C7_UnqueueFrame ==
    [][(last' # last /\ last'.op = "unqueue") =>
            /\ last'.rpc = None
            /\ UNCHANGED <<names, mempool, balance, nexttx>>
            /\ OtherEntries(queue', last') = OtherEntries(queue, last')
            /\ \/ last'.result = Status /\ queue' = OtherEntries(queue, last')
               \/ HasError(last'.result) /\ queue' = queue]_vars

\* the entry of an unconfirmed transaction is removed; the transaction
\* stays in the mempool and an older entry stays in the queue
C7_Witness ==
    /\ last.op = "unqueue"
    /\ last.result = Status
    /\ \E tx \in mempool : tx.txid = last.data
    /\ \A e \in queue : e.tx_hash # last.data
    /\ queue # {}

\* the live estimate gave no value
LiveEstimateFailed ==
    CASE fee.case.op = "register" ->
            /\ fee.case.inp.cost = "ok"
            /\ ~fee.case.inp.utxo_fail
            /\ \/ ~fee.case.inp.pre.some
               \/ ~fee.case.inp.reg.some
               \/ ~fee.case.inp.upd.some
      [] fee.case.op = "renew" -> fee.case.inp.cost = "ok" /\ ~fee.case.est.some
      [] OTHER -> ~fee.case.est.some

\* C8: when the live estimate of a preorder, register, update, transfer or
\* renewal fee gives no value, the caller still gets a fee, computed from
\* the fixed transaction length, and a warning that it is a rough estimate.
C8_FallbackPresent ==
    (fee.out.reply # Pending /\ LiveEstimateFailed) =>
        /\ fee.out.reply.kind \in {"fees", "status"}
        /\ fee.out.used.some
        /\ fee.out.reply.warnings # {}

\* C9: get_wallet_with_backoff makes at most 3 attempts, sleeps 1, 2, 3
\* seconds after the refused ones, and answers {'error': ..} when all 3
\* are refused, never None.
C9_BackoffError ==
    wk.out.ret # "pending" =>
        /\ wk.out.attempts <= 3
        /\ wk.out.sleeps = [k \in 1..Len(wk.out.sleeps) |-> k]
        /\ wk.out.ret # "none"
        /\ (/\ wk.w.exists \/ wk.w.init_ok
            /\ wk.w.unlocked \/ wk.w.unlock_ok
            /\ \A k \in 1..BackoffAttempts : wk.w.outs[k] = "refused") =>
                wk.out.ret = "error"

\* the txids cli_sync_zonefile can find: the argument, the queue's, the
\* current record's, the history's
SyncTxids(a) ==
    ({a.txid} \cup {a.queued[k].tx_hash : k \in 1..Len(a.queued)}
        \cup {a.name_rec.txid}
        \cup {a.name_rec.history[k].txid : k \in 1..Len(a.name_rec.history)})
    \ {None}

\* C10: cli_sync_zonefile calls zonefile_data_replicate only with a txid
\* that is not None; with no txid given and none in the queue, the current
\* record or the history, the result is an error and nothing is pushed.
C10_ReplicateNeedsTxid ==
    sync.out.kind # "pending" =>
        /\ sync.out.replicated => sync.out.txid \in SyncTxids(sync.args)
        /\ ~sync.out.replicated => sync.out.kind = "error"
        /\ SyncTxids(sync.args) = {} =>
                (sync.out.kind = "error" /\ ~sync.out.replicated)

\* the txid comes from the history: none given, none queued
C10_Witness ==
    /\ sync.out.replicated
    /\ sync.args.txid = None
    /\ sync.out.txid = "h1"
    /\ sync.out.kind = "status"

\* the calls that look the txid up on the server: no txid from the
\* arguments or the queue, a zonefile to hash, a name record
SyncLooksUp ==
    /\ sync.out.kind # "pending"
    /\ sync.args.txid = None
    /\ ~sync_given(sync.args).stop
    /\ first_queued(sync.args.queued, 1).tx_hash = None
    /\ sync_user_data(sync.args) \notin {None, "error"}
    /\ sync.args.name_rec.kind = "rec"

\* the current record is an update that wrote zonefile_hash
RecordWrote(name_rec, zonefile_hash) ==
    /\ name_rec.op = NAME_UPDATE
    /\ name_rec.value_hash = zonefile_hash
    /\ name_rec.txid # None

\* an update of the history wrote zonefile_hash, and every such update
\* carries its txid
HistoryWrote(name_rec, zonefile_hash) ==
    LET wrote == {k \in 1..Len(name_rec.history) :
                    /\ name_rec.history[k].op = NAME_UPDATE
                    /\ name_rec.history[k].value_hash = zonefile_hash}
    IN  /\ wrote # {}
        /\ \A k \in wrote : name_rec.history[k].txid # None

\* C11: with no txid given, cli_sync_zonefile takes the txid of the pending
\* update queue, else of the current record, else of the first update of
\* the history, from the highest height down, that wrote the zonefile
\* hash; so whenever the current record or an update of the history wrote
\* the hash, a txid is found and zonefile_data_replicate is called.
C11_TxidFound ==
    LET a == sync.args
        zonefile_hash == get_zonefile_data_hash(sync_user_data(a))
    IN  (/\ SyncLooksUp
         /\ \/ RecordWrote(a.name_rec, zonefile_hash)
            \/ HistoryWrote(a.name_rec, zonefile_hash))
            => sync.out.replicated

\* the integers of a CSV whose fields all parse
RevealValues(bucket_exponents) ==
    [i \in 1..Len(bucket_exponents) |-> int(bucket_exponents[i]).v]

OperationFunctions == {"register", "update", "transfer", "renew", "revoke", "migrate"}

\* C13: cli_register, cli_update, cli_transfer, cli_renew, cli_revoke and
\* cli_migrate return, for every reply of the backend, a success that
\* carries the transaction id or a result that carries 'error'; never an
\* empty result, and never neither.
C13_StructuredResult ==
    [][(/\ last' # last
        /\ last'.op \in OperationFunctions
        /\ last'.rpc # None) =>
            \/ last'.result.kind = "error"
            \/ last'.result.kind = "success" /\ last'.result.txid # None]_vars

\* C14: an update of a registered name with a zonefile whose hash is the
\* name's current value_hash returns a result that carries an error
\* message and the flag identical: true.
C14_IdenticalFlag ==
    [][(/\ last' # last
        /\ last'.op = "update"
        /\ is_name_registered(last'.name)
        /\ last'.lz = "identical") =>
            /\ last'.result.kind = "error"
            /\ last'.result.identical]_vars

\* the $ttl of a payload is a non-negative integer
TtlIsNonNegativeInteger(ttl) ==
    \/ ttl.kind = "number" /\ ttl.tenths >= 0 /\ ttl.tenths % 10 = 0
    \/ ttl.kind = "string" /\ int(ttl.text).ok /\ int(ttl.text).v >= 0

\* C15: load_zonefile returns a success with the serialized zonefile only
\* for a payload that parses, as JSON or as zone-file text, whose $origin is
\* the name, which has a $ttl that is a non-negative integer, and which has
\* the URI/TXT records of a user zonefile; otherwise the result is an error.
C15_LoadZonefile ==
    LET p == PayloadOf(str(lzf.zonefile_data))
        good == /\ p.fmt \in {"text", "json"}
                /\ p.origin = lzf.fqu
                /\ TtlIsNonNegativeInteger(p.ttl)
                /\ p.std
    IN  lzf.out.kind # "pending" =>
            /\ lzf.out.kind = "status" => (good /\ lzf.out.zonefile = p.ser)
            /\ ~good => lzf.out.kind = "error"

\* what the zonefile of an update or a migrate was found to be, when it is
\* not one to send: invalid or identical (cli_update), one that does not
\* parse or a standard one that needs no migration (cli_migrate)
RefusedZonefiles == {"invalid", "identical", "nonstandard", "standard"}

\* C16: in cli_update and cli_migrate the zonefile is validated and
\* classified before operation_sanity_check: for an invalid or identical
\* zonefile the call is decided with no ownership, fee or balance query of
\* the sanity check made.
C16_ValidateBeforeSanity ==
    [][(/\ last' # last
        /\ \/ last'.op = "update" /\ last'.data # None
           \/ last'.op = "migrate"
        /\ last'.lz \in RefusedZonefiles) => last'.sanity = NotRun]_vars

\* the consensus hash at the anchor's height recomputed from the claimed
\* record: the hash before block_id, the record as the operation of its
\* block, and the operations of the blocks after it
RecomputedAnchor(a) ==
    chain_hash(a.prev, [k \in 1..a.span |-> IF k = 1 THEN a.rec ELSE a.ops[k]],
               a.span)

\* C17: cli_lookup_snv returns the claimed record as verified only if the
\* hash chain recomputed from the record up to the anchor's height gives
\* the trust anchor, whatever the server reports.
C17_SnvFailClosed ==
    snv.out.kind = "verified" =>
        /\ RecomputedAnchor(snv.args) = snv.args.trust_anchor
        /\ snv.out.rec = snv.args.rec

\* the server reports success with consistent hashes, the chain does not
\* end in the anchor, and the record is refused
C17_Witness ==
    /\ snv.out.kind = "error"
    /\ snv.out.msg = "verification"
    /\ snv.args.server_ok
    /\ snv.args.tamper = 0
    /\ snv.args.rec = snv.args.ops[1]
    /\ RecomputedAnchor(snv.args) # snv.args.trust_anchor

C19_RegisterAfterPreorder ==
    [][/\ \A tx \in mempool' \ mempool :
            tx.type = "register" =>
                \E e \in queue :
                    /\ e.type = "preorder"
                    /\ e.name = tx.name
                    /\ confirmations(e.tx_hash) >= PREORDER_CONFIRMATIONS
       /\ \A e \in queue :
            (/\ daemon'.polled = Polled("wait", e.tx_hash)
             /\ daemon'.polled # daemon.polled) =>
                /\ confirmations(e.tx_hash) < PREORDER_CONFIRMATIONS
                /\ mempool' = mempool
                /\ queue' = queue
                /\ nexttx' = nexttx]_vars

\* the register was sent for a preorder with six confirmations
C19_Witness ==
    /\ daemon.polled.what = "register"
    /\ confirmations(daemon.polled.tx_hash) = PREORDER_CONFIRMATIONS
    /\ \E tx \in mempool : tx.type = "register"

\* the entries the queue can hold
QueueEntries ==
    {QueueEntry(type, fqu, t, None) :
        type \in {"preorder", "register"}, fqu \in Names, t \in Txids}

\* C20: an entry leaves the queue only when its confirmations exceed the
\* threshold or when cli_unqueue is called for it, and with a poller that
\* keeps polling every entry whose confirmations exceed the threshold is
\* eventually out of the queue.
C20_QueueRetire ==
    /\ [][\A e \in queue \ queue' :
            \/ confirmations(e.tx_hash) > retire_threshold(e.type)
            \/ /\ last'.op = "unqueue"
               /\ last'.dest = e.type
               /\ last'.name = e.name
               /\ last'.data = e.tx_hash]_vars
    /\ \A e \in QueueEntries :
            (e \in queue /\ confirmations(e.tx_hash) > retire_threshold(e.type))
                ~> (e \notin queue)

\* the poller retired a register entry with more than six confirmations
C20_Witness ==
    /\ daemon.polled.what = "retire"
    /\ confirmations(daemon.polled.tx_hash) > PREORDER_CONFIRMATIONS
    /\ daemon.confs[daemon.polled.tx_hash].type = "register"
    /\ \A e \in queue : e.tx_hash # daemon.polled.tx_hash

(***************************************************************************)
(* C21: every read-modify-write of the queue store is made by the holder   *)
(* of the exclusive lock, and with the CLI-invoked flows and the poller    *)
(* interleaved in any order no change is lost: the store always holds      *)
(* every change written so far.                                            *)
(***************************************************************************)
C21_NoLostUpdate ==
    /\ \A p \in Writers : store.procs[p].pc # "idle" => store.lock = p
    /\ store.rows = store.applied

\* cli_unqueue has read the store while it holds a row the poller has
\* counted confirmations for
C21_Witness ==
    /\ store.procs["cli"].pc = "read"
    /\ store.procs["cli"].op.kind = "unqueue"
    /\ \E r \in store.rows : r.confirmations > 0 /\ r.tx_hash = store.procs["cli"].op.tx_hash

(***************************************************************************)
(* C22: two mutating operations on different names, run at the same time   *)
(* from the same wallet, are independent: under every interleaving the     *)
(* sanity check of each gives what it gives when the operation runs alone, *)
(* and the payment address covers the fee of every transaction broadcast.  *)
(* The sanity checks are compared where the address held enough for the    *)
(* fees of both operations when they started.                              *)
(***************************************************************************)
\* what the payment address held at the start: every broadcast took 1
StartBalance == balance + nexttx

\* the fee operation_sanity_check asks the balance to cover
FlowFee(fqu) == sanity_tx_fee(None, flows[fqu].env.est, flows[fqu].env.rate)

EnoughForBoth ==
    /\ \A fqu \in ParallelNames : FlowFee(fqu).some
    /\ StartBalance >= FlowFee("n1.id").v + FlowFee("n2.id").v

C22_DifferentNamesIndependent ==
    /\ \A fqu \in ParallelNames :
            (flows[fqu].pc # "start" /\ EnoughForBoth)
                => flows[fqu].sanity = flows[fqu].alone
    /\ balance >= 0

(***************************************************************************)
(* C23: no operation raises past its own boundary: for every reply of the  *)
(* server and of the API daemon, info, ping and consensus return a result  *)
(* or an error value.                                                      *)
(***************************************************************************)
C23_NoUncaughtFault == info.out.kind # "raise"

(***************************************************************************)
(* C24: in the queue display that info returns, duplicates are omitted:    *)
(* no name of the register list is in the preorder list, and the preorder  *)
(* entries of the names without a register entry are all kept.             *)
(***************************************************************************)
DisplayedNames(list) == {list[i].name : i \in 1..Len(list)}

\* the preorder entries of the backend's state for names with no register
UnregisteredPreorders(current_state) ==
    LET registers == DisplayedNames(queue_of(current_state, "register"))
    IN  SelectSeq(queue_of(current_state, "preorder"),
                  LAMBDA e : e.name \notin registers)

C24_DisplayOmitsDuplicates ==
    (info.out.kind = "result" /\ info.out.has_queue)
        => /\ DisplayedNames(info.out.queue["preorder"])
                \cap DisplayedNames(info.out.queue["register"]) = {}
           /\ \A i \in 1..Len(UnregisteredPreorders(info.args.state)) :
                \E j \in 1..Len(info.out.queue["preorder"]) :
                    info.out.queue["preorder"][j]
                        = UnregisteredPreorders(info.args.state)[i]

(***************************************************************************)
(* C28: for every queue state of the backend, info returns normally; its   *)
(* 'queue' maps exactly the types among preorder, register, update and     *)
(* transfer that have an entry to their entries (name, confirmations,      *)
(* tx_hash), entries of another type are skipped, a confirmation count     *)
(* that cannot be fetched is shown as 0, and 'queue' is absent when every  *)
(* type is empty.                                                          *)
(***************************************************************************)
\* the info calls that get as far as the queue
ReachesQueue ==
    /\ info.args.call = "info"
    /\ info.args.resp = CompleteReply
    /\ info.args.startup = "ok"
    /\ info.args.rpc = "ok"
    /\ info.out.kind # "pending"

\* the entries to show for a type
Shown(type) ==
    IF type = "preorder"
    THEN format_queue_display(queue_of(info.args.state, "preorder"),
                              queue_of(info.args.state, "register"), 1)
    ELSE queue_of(info.args.state, type)

C28_QueueField ==
    ReachesQueue
        => /\ info.out.kind = "result"
           /\ info.out.has_queue = (\E t \in DisplayTypes : Len(Shown(t)) > 0)
           /\ info.out.has_queue =>
                /\ DOMAIN info.out.queue = {t \in DisplayTypes : Len(Shown(t)) > 0}
                /\ \A t \in DOMAIN info.out.queue : info.out.queue[t] = Shown(t)

(***************************************************************************)
(* C25: the value_hash a successful sync_zonefile reports is the hash      *)
(* recomputed from the zonefile bytes it replicated: never a value taken   *)
(* from the caller, and never absent.                                      *)
(***************************************************************************)
C25_HashRecomputed ==
    sync.out.kind = "status"
        => /\ sync.out.replicated
           /\ sync.out.value_hash # None
           /\ sync.out.value_hash = get_zonefile_data_hash(sync.out.data)

(***************************************************************************)
(* C26: cli_register sends the preorder (backend_preorder) only if the     *)
(* name is valid and not already registered, the payment balance is at     *)
(* least the total estimated cost (name price and the preorder, register   *)
(* and update fees), the owner address can still receive a name, and the   *)
(* payment address has no insufficiently confirmed transactions; when one  *)
(* of these fails the call ends without a result of success (an error, or  *)
(* an end before the test: the prompt declined, the wallet or the          *)
(* estimate failing) and sends nothing.                                    *)
(***************************************************************************)
\* the total the call held the balance against is a name price and three fees
IsTotalCost(cost) ==
    \E f \in RegistrationFees :
        /\ f.kind = "fees"
        /\ f.total_estimated_cost = cost
        /\ cost.v = NamePrice + f.preorder_tx_fee.v + f.register_tx_fee.v
                        + f.update_tx_fee.v

NotSent == {"error", "exit", "raise"}

IsRenewalCost(cost) ==
    \E renewal_tx_fee \in Estimates :
        /\ renewal_tx_fee.some
        /\ cost = Some(NamePrice + renewal_tx_fee.v)

C29_BatchRejectsInvalid ==
    [][(/\ last' # last
        /\ last'.op = "update"
        /\ last'.mode = "batch"
        /\ last'.lz = "invalid")
            => /\ HasError(last'.result)
               /\ NothingSent]_vars

(***************************************************************************)
(* C30: operation_sanity_check with a transfer_address that is not a valid *)
(* base58check address returns the error 'not a valid Bitcoin address', so *)
(* cli_transfer never sends a transfer to a malformed destination.         *)
(***************************************************************************)
\* the check got as far as the destination address
ReachedAddress ==
    /\ last'.op = "transfer"
    /\ last'.sanity # NotRun
    /\ last'.sanity.msg \notin
            {"is not registered yet.", "is not in your possession.",
             "Failed to get fee estimate", "Failed to get balance",
             "does not have a sufficient balance",
             "has insufficiently confirmed transactions."}

====
